---- MODULE Spec2Model ----
(***************************************************************************)
(* Model of the journey recording controller of SignalStrength             *)
(* (js/views/CollectorView.js) together with the parts of the Journey      *)
(* model (js/models/DataPoint.js) and of the IndexedDB storage service     *)
(* (js/services/StorageService.js) that the controller drives.             *)
(*                                                                         *)
(* JavaScript runs one task at a time: every action below is the code that *)
(* runs between two suspension points (an await on a platform promise, a   *)
(* timer or an IndexedDB request).  Awaits on promises that are already    *)
(* resolved continue in a microtask of the same task and are therefore     *)
(* part of the same action.                                                *)
(*                                                                         *)
(* CollectorView.destroy() is called nowhere in the application and is not *)
(* modelled.  onDataPointRecorded is a public field the embedding page may *)
(* assign before recording: both cases are initial states.                 *)
(***************************************************************************)
EXTENDS Integers, Sequences, FiniteSets, TLC

\* ---- bounds of the model ------------------------------------------------
MaxEvents == 3      \* calls of startRecording, stopRecording and recordDataPoint

MaxSpeed == 6       \* throughputs 0..MaxSpeed, in Mbps

MaxTime == 3        \* timestamps 1..MaxTime given to the Journey constructor and to end()

MaxPoints == 3      \* data points of the journey under test

MaxCalls == 3       \* calls of a client of the StorageService

MaxOpens == 4       \* calls of open()

MaxFiles == 2       \* calls of a client that imports files

\* ---- values -------------------------------------------------------------
Null == 0           \* JavaScript null (ids, times and handles are positive)

NoSpeed == -1       \* speedMbps === null

\* A position as the GeolocationService hands it on, and the empty slot.
NoPosition == [latitude |-> 0, longitude |-> 0, accuracy |-> -1]

Fix == [latitude |-> 10, longitude |-> 20, accuracy |-> 5]

\* The fix of the device after it has moved.
Moved == [latitude |-> 11, longitude |-> 21, accuracy |-> 5]

\* The fixes a position watch delivers while the device moves.
Fixes == {Fix, Moved}

NoDataPoint ==
    [timestamp |-> 0, latitude |-> 0, longitude |-> 0, accuracy |-> -1,
     speedMbps |-> NoSpeed, connectionType |-> "none", cycle |-> 0]

\* Results measureSpeed() resolves with.
SpeedResults ==
    { [speedMbps |-> NoSpeed, connectionType |-> "offline"],
      [speedMbps |-> 3,       connectionType |-> "wifi"] }

\* Outcomes of the one-shot position request (GeolocationPositionError codes).
PositionOutcomes == {"ok", "denied", "unavailable", "timeout"}

\* translateError: the message of a position error, by kind.
translateError(outcome) ==
    IF outcome = "denied" THEN "Location permission denied" ELSE "Location error"

VARIABLES
    \* CollectorView fields
    isRecording, currentJourney, intervalId, watchId, latestPosition,
    wakeLock, onDataPointRecorded, errorMessage,
    \* platform: scheduled intervals, open position watches, and the value
    \* the next Date.now() returns (the clock moves on with every reading)
    timers, watches, now,
    \* Journey objects created so far, by id
    journeys,
    \* StorageService: this.db, open() requests in flight, put requests in
    \* flight (in transaction order) and the object store
    db, opening, putQueue, store,
    \* calls of startRecording, stopRecording and recordDataPoint
    starts, stops, cycles,
    \* DataPoint under test: the constructor argument, the outcome of the
    \* constructor, the result of getQuality() and of fromJSON(toJSON())
    data, point, quality, restored,
    \* Journey under test: the outcome of the constructor, the result of
    \* getStats() and of fromJSON(toJSON())
    journey, stats, revived,
    \* StorageService under test: the calls made by a client, each with its
    \* promise, the requests placed on the object store, oldest first, and
    \* the transaction whose request has succeeded and that has not finished
    clients, requests, transaction,
    \* SpeedTestService under test: navigator.onLine and the type the
    \* connection reports, and the call of measureSpeed with its promise
    navigator, probe

ctrl    == <<isRecording, currentJourney, intervalId, watchId, latestPosition,
             wakeLock, errorMessage>>
storage == <<db, opening, putQueue, store>>
calls   == <<starts, stops, cycles>>
pointVars   == <<data, point, quality, restored>>
journeyVars == <<journey, stats, revived>>
clientVars  == <<clients, requests, transaction>>
probeVars   == <<navigator, probe>>
bench   == <<pointVars, journeyVars, clientVars, probeVars>>
app     == <<ctrl, onDataPointRecorded, timers, watches, now, journeys, storage,
             calls>>
vars    == <<isRecording, currentJourney, intervalId, watchId, latestPosition,
             wakeLock, onDataPointRecorded, errorMessage, timers, watches, now,
             journeys, db, opening, putQueue, store, starts, stops, cycles,
             data, point, quality, restored, journey, stats, revived,
             clients, requests, transaction, navigator, probe>>

StartIds == 1..MaxEvents

\* The startRecording() call of a session that is under way when the model
\* starts; its journey, watch and interval are identified by it.
Earlier == MaxEvents + 1

\* The calls that identify a journey, a watch and an interval.
SessionIds == StartIds \cup {Earlier}
StopIds  == 1..MaxEvents
CycleIds == 1..MaxEvents

\* ---- Journey and DataPoint (js/models/DataPoint.js) ----------------------

validConnectionTypes == {"wifi", "cellular", "unknown", "offline"}

\* JavaScript values a DataPoint field can be given: a number, NaN (typeof
\* 'number', every comparison with it is false), Infinity (typeof 'number',
\* greater than every number), a string that is not a number, and null.
Number(n) == [type |-> "number", val |-> n]

NaN == [type |-> "NaN", val |-> 0]

Infinity == [type |-> "Infinity", val |-> 0]

Text == [type |-> "string", val |-> 0]

JsNull == [type |-> "null", val |-> 0]

typeofNumber(v) == v.type \in {"number", "NaN", "Infinity"}

\* v < k, v > k, v <= k and v >= k for a value v whose typeof is 'number'.
Less(v, k) == v.type = "number" /\ v.val < k

Greater(v, k) == v.type = "Infinity" \/ (v.type = "number" /\ v.val > k)

LessEq(v, k) == v.type = "number" /\ v.val <= k

GreaterEq(v, k) == v.type = "Infinity" \/ (v.type = "number" /\ v.val >= k)

\* DataPoint.validate as it runs in the constructor: the field named by the
\* error that is thrown, "none" if none is thrown.
DataPointValidate(d) ==
    IF ~typeofNumber(d.timestamp) \/ LessEq(d.timestamp, 0) THEN "timestamp"
    ELSE IF ~typeofNumber(d.latitude) \/ Less(d.latitude, -90) \/ Greater(d.latitude, 90)
      THEN "latitude"
    ELSE IF ~typeofNumber(d.longitude) \/ Less(d.longitude, -180) \/ Greater(d.longitude, 180)
      THEN "longitude"
    ELSE IF ~typeofNumber(d.accuracy) \/ Less(d.accuracy, 0) THEN "accuracy"
    ELSE IF d.speedMbps # JsNull /\ (~typeofNumber(d.speedMbps) \/ Less(d.speedMbps, 0))
      THEN "speedMbps"
    ELSE IF d.connectionType \notin validConnectionTypes THEN "connectionType"
    ELSE "none"

\* The fields of a data point of the controller as JavaScript values.
Fields(dp) ==
    [timestamp |-> Number(dp.timestamp), latitude |-> Number(dp.latitude),
     longitude |-> Number(dp.longitude), accuracy |-> Number(dp.accuracy),
     speedMbps |-> IF dp.speedMbps = NoSpeed THEN JsNull ELSE Number(dp.speedMbps),
     connectionType |-> dp.connectionType]

\* DataPoint.validate: TRUE iff the constructor does not throw.
validate(dp) == DataPointValidate(Fields(dp)) = "none"

\* No DataPoint: the constructor has not run, or it has thrown.
NoPoint == [error |-> "pending"]

\* new DataPoint(d): the six fields are taken as given and validated.
DataPointNew(d) ==
    LET e == DataPointValidate(d) IN
      IF e = "none"
        THEN [error |-> "none",
              value |-> [timestamp |-> d.timestamp, latitude |-> d.latitude,
                         longitude |-> d.longitude, accuracy |-> d.accuracy,
                         speedMbps |-> d.speedMbps,
                         connectionType |-> d.connectionType]]
        ELSE [error |-> e]

\* A getQuality() with strict comparisons.
getQualityStrict(p) ==
    IF p.speedMbps = JsNull THEN "offline"
    ELSE IF Greater(p.speedMbps, 2) THEN "good"
    ELSE IF Greater(p.speedMbps, 1) THEN "moderate"
    ELSE "poor"

\* DataPoint.getQuality
getQuality(p) ==
    IF p.speedMbps = JsNull THEN "offline"
    ELSE IF GreaterEq(p.speedMbps, 2) THEN "good"
    ELSE IF GreaterEq(p.speedMbps, 1) THEN "moderate"
    ELSE "poor"

\* Config.speedThresholds and the table of the documentation.
speedThresholds == [good |-> 5, moderate |-> 1]

\* DataPoint.toJSON
DataPointToJSON(p) ==
    [timestamp |-> p.timestamp, latitude |-> p.latitude, longitude |-> p.longitude,
     accuracy |-> p.accuracy, speedMbps |-> p.speedMbps,
     connectionType |-> p.connectionType]

\* A fromJSON() that reads a missing throughput as 0.
DataPointFromJSONZero(obj) ==
    DataPointNew([obj EXCEPT !.speedMbps = IF @ = JsNull THEN Number(0) ELSE @])

\* DataPoint.fromJSON
DataPointFromJSON(obj) == DataPointNew(obj)

\* Journey.create(name): a journey that starts now, ongoing, without samples.
JourneyCreate(t) ==
    [name |-> "Journey", startTime |-> t, endTime |-> Null,
     dataPoints |-> <<>>]

\* Journey.addDataPoint
addDataPoint(j, dp) == [j EXCEPT !.dataPoints = Append(@, dp)]

\* Journey.end(timestamp = Date.now())
end(j, t) == [j EXCEPT !.endTime = t]

\* Journey.toJSON: the plain record that is handed to the object store.
toJSON(id, j) ==
    [id |-> id, name |-> j.name, startTime |-> j.startTime,
     endTime |-> j.endTime, dataPoints |-> j.dataPoints]

\* generateUUID(): the id of a journey that is constructed without one.
generateUUID == "uuid"

\* Journey.validate as it runs in the constructor: the field named by the
\* error that is thrown, "none" if none is thrown.  Ids and names are strings,
\* times are numbers or null, dataPoints is an array.
JourneyValidate(j) ==
    IF j.id = "" THEN "id"
    ELSE IF j.name = "" THEN "name"
    ELSE IF j.startTime <= 0 THEN "startTime"
    ELSE IF j.endTime # Null /\ j.endTime <= 0 THEN "endTime"
    ELSE IF j.endTime # Null /\ j.endTime < j.startTime THEN "endTime"
    ELSE "none"

\* new Journey(d): a missing id is generated, the data points are built with
\* DataPoint.fromJSON (the first error of a data point is thrown), then the
\* journey is validated.
JourneyNew(d) ==
    LET pts == [i \in DOMAIN d.dataPoints |-> DataPointFromJSON(d.dataPoints[i])]
        bad == {i \in DOMAIN pts : pts[i].error # "none"}
        j   == [id |-> IF d.id = "" THEN generateUUID ELSE d.id,
                name |-> d.name, startTime |-> d.startTime, endTime |-> d.endTime,
                dataPoints |-> [i \in DOMAIN pts |-> pts[i].value]]
    IN  IF bad # {}
          THEN [error |-> pts[CHOOSE i \in bad : \A k \in bad : i <= k].error]
          ELSE IF JourneyValidate(j) = "none"
                 THEN [error |-> "none", value |-> j]
                 ELSE [error |-> JourneyValidate(j)]

\* Journey.toJSON of a journey object: the data points are converted with
\* DataPoint.toJSON.
JourneyToJSON(j) ==
    [toJSON(j.id, j) EXCEPT
       !.dataPoints = [i \in DOMAIN j.dataPoints |-> DataPointToJSON(j.dataPoints[i])]]

\* Journey.fromJSON
JourneyFromJSON(obj) == JourneyNew(obj)

\* The sum of a sequence of numbers: reduce((a, b) => a + b, 0).
RECURSIVE Sum(_)
Sum(q) == IF q = << >> THEN 0 ELSE Head(q) + Sum(Tail(q))

\* The throughputs of the data points: absent ones are left out by
\* getStats(), and counted as 0 by the variant below.
Present(dp) == dp.speedMbps # JsNull

SpeedsOf(dataPoints) ==
    LET present == SelectSeq(dataPoints, Present)
    IN  [i \in DOMAIN present |-> present[i].speedMbps.val]

\* A getStats() that takes an absent throughput as 0.
getStatsAbsentAsZero(j, t) ==
    LET speeds == [i \in DOMAIN j.dataPoints |-> j.dataPoints[i].speedMbps.val]
        n == Len(speeds)
    IN  [pointCount |-> Len(j.dataPoints),
         avgSpeed |-> IF n > 0 THEN [sum |-> Sum(speeds), count |-> n] ELSE JsNull,
         maxSpeed |-> IF n > 0
                        THEN Number(CHOOSE m \in {speeds[i] : i \in 1..n} :
                                      \A i \in 1..n : speeds[i] <= m)
                        ELSE JsNull,
         minSpeed |-> IF n > 0
                        THEN Number(CHOOSE m \in {speeds[i] : i \in 1..n} :
                                      \A i \in 1..n : speeds[i] >= m)
                        ELSE JsNull,
         qualityCounts |-> [q \in {"good", "moderate", "poor", "offline"} |->
                              Cardinality({i \in DOMAIN j.dataPoints :
                                             getQuality(j.dataPoints[i]) = q})],
         duration |-> (IF j.endTime # Null THEN j.endTime ELSE t) - j.startTime]

\* Journey.getStats; t is the value of Date.now().  avgSpeed is the quotient
\* sum / count.
getStats(j, t) ==
    LET speeds == SpeedsOf(j.dataPoints)
        n == Len(speeds)
    IN  [pointCount |-> Len(j.dataPoints),
         avgSpeed |-> IF n > 0 THEN [sum |-> Sum(speeds), count |-> n] ELSE JsNull,
         maxSpeed |-> IF n > 0
                        THEN Number(CHOOSE m \in {speeds[i] : i \in 1..n} :
                                      \A i \in 1..n : speeds[i] <= m)
                        ELSE JsNull,
         minSpeed |-> IF n > 0
                        THEN Number(CHOOSE m \in {speeds[i] : i \in 1..n} :
                                      \A i \in 1..n : speeds[i] >= m)
                        ELSE JsNull,
         qualityCounts |-> [q \in {"good", "moderate", "poor", "offline"} |->
                              Cardinality({i \in DOMAIN j.dataPoints :
                                             getQuality(j.dataPoints[i]) = q})],
         duration |-> (IF j.endTime # Null THEN j.endTime ELSE t) - j.startTime]

\* ---- initial state -------------------------------------------------------

\* session is the journey that was current when the call passed its guard.
NewCycle ==
    [pc |-> "new", owner |-> Null, session |-> Null, position |-> NoPosition,
     dataPoint |-> NoDataPoint, notifyCount |-> 0, notifyJourney |-> Null]

\* No DataPoint is under test.
NoData ==
    [timestamp |-> JsNull, latitude |-> JsNull, longitude |-> JsNull,
     accuracy |-> JsNull, speedMbps |-> JsNull, connectionType |-> "none"]

PointIdle ==
    /\ data = NoData
    /\ point = NoPoint
    /\ quality = "none"
    /\ restored = NoPoint

\* No Journey: the constructor has not run, or it has thrown.
NoJourney == [error |-> "pending"]

\* getStats() has not been called.
NoStats == [pointCount |-> -1]

JourneyIdle ==
    /\ journey = NoJourney
    /\ stats = NoStats
    /\ revived = NoJourney

\* No transaction is waiting to be committed.
NoTransaction == [pc |-> "none"]

ClientIdle ==
    /\ clients = << >>
    /\ requests = << >>
    /\ transaction = NoTransaction

\* measureSpeed() has not been called; the device is online on a connection
\* of unknown type.
NoProbe ==
    [pc |-> "idle", connectionType |-> "none", cause |-> "none",
     reply |-> [status |-> "none"]]

ProbeIdle ==
    /\ navigator = [onLine |-> TRUE, type |-> "undefined"]
    /\ probe = NoProbe

BenchIdle ==
    /\ PointIdle
    /\ JourneyIdle
    /\ ClientIdle
    /\ ProbeIdle

\* The fields after the constructors of CollectorView and StorageService, the
\* platform and the call records; the object store is the one the database
\* holds from earlier sessions.
ConstructedOver(persisted) ==
    /\ isRecording = FALSE
    /\ currentJourney = Null
    /\ intervalId = Null
    /\ watchId = Null
    /\ latestPosition = NoPosition
    /\ wakeLock = Null
    /\ errorMessage = ""
    /\ timers = {}
    /\ watches = {}
    /\ now = 1
    /\ journeys = << >>
    /\ db = Null
    /\ opening = << >>
    /\ putQueue = << >>
    /\ store = persisted
    /\ starts = [s \in StartIds |-> [pc |-> "new", fromIdle |-> FALSE]]
    /\ stops = [s \in StopIds |-> [pc |-> "new"]]
    /\ cycles = [c \in CycleIds |-> NewCycle]

\* The same with a database that holds no journey yet.
Constructed == ConstructedOver(<< >>)

Init ==
    /\ Constructed
    /\ onDataPointRecorded \in BOOLEAN
    /\ BenchIdle

\* ---- controller states ---------------------------------------------------

StartInProgress(s) == starts[s].pc \in {"permission", "wait", "record"}
StopInProgress(s)  == stops[s].pc \in {"release", "save"}
CycleInProgress(c) == cycles[c].pc \in {"position", "speed", "save"}

\* Idle: not recording and no start or stop call in progress.
Idle ==
    /\ ~isRecording
    /\ \A s \in StartIds : ~StartInProgress(s)
    /\ \A s \in StopIds : ~StopInProgress(s)

\* The number of calls made so far: startRecording, stopRecording and the
\* recordDataPoint calls that pass the guard.
Events ==
    Cardinality({s \in StartIds : starts[s].pc # "new"})
      + Cardinality({s \in StopIds : stops[s].pc # "new"})
      + Cardinality({c \in CycleIds : cycles[c].pc # "new"})

\* Calls are numbered in the order they are made.
NextStart(s) == starts[s].pc = "new" /\ \A r \in StartIds : r < s => starts[r].pc # "new"
NextStop(s)  == stops[s].pc = "new" /\ \A r \in StopIds : r < s => stops[r].pc # "new"
NextCycle(c) == cycles[c].pc = "new" /\ \A r \in CycleIds : r < c => cycles[r].pc # "new"

\* ---- StorageService (js/services/StorageService.js) ----------------------

\* A saveJourney() whose put request is served before the requests placed
\* earlier.
saveJourneyOutOfOrder(id, caller, heap) ==
    /\ IF db # Null
         THEN /\ putQueue' = <<[journey |-> id, value |-> toJSON(id, heap[id]),
                                caller |-> caller]>> \o putQueue
              /\ opening' = opening
         ELSE /\ opening' = Append(opening, [journey |-> id, caller |-> caller])
              /\ putQueue' = putQueue
    /\ UNCHANGED <<db, store>>

\* saveJourney(journey) up to its first real suspension.  With the database
\* open, `await this.open()` continues in a microtask: the put request, with
\* journey.toJSON() as its value, is placed in the same task.  Otherwise an
\* indexedDB.open request is made and the put follows when it succeeds.
\* heap is the journey table as the caller leaves it.
saveJourney(id, caller, heap) ==
    /\ IF db # Null
         THEN /\ putQueue' = Append(putQueue,
                     [journey |-> id, value |-> toJSON(id, heap[id]), caller |-> caller])
              /\ opening' = opening
         ELSE /\ opening' = Append(opening, [journey |-> id, caller |-> caller])
              /\ putQueue' = putQueue
    /\ UNCHANGED <<db, store>>

\* ---- CollectorView.startRecording ----------------------------------------

\* startRecording() up to `await requestPermission()`.  fromIdle remembers
\* whether the controller was Idle when the call was made.
StartRecording(s) ==
    /\ UNCHANGED bench
    /\ Events < MaxEvents
    /\ NextStart(s)
    /\ errorMessage' = ""
    /\ starts' = [starts EXCEPT ![s] = [pc |-> "permission", fromIdle |-> Idle]]
    /\ UNCHANGED <<isRecording, currentJourney, intervalId, watchId, latestPosition,
                   wakeLock, onDataPointRecorded, timers, watches, now, journeys,
                   storage, stops, cycles>>

\* The catch block of startRecording().
startRecordingCatch(message) ==
    /\ errorMessage' = message
    /\ isRecording' = FALSE

\* requestPermission() settles: true, false (code 1) or a thrown error.
\* After true, requestWakeLock() is awaited (acquired tells whether the lock
\* is obtained; a failed request is caught and logged); no field is assigned
\* between the two awaits.  Then the journey is created, the flag set and the
\* position watch opened, up to the 500 ms wait.  The journey, the watch and
\* later the interval of the call s are identified by s.
StartPermissionDone(s, outcome, acquired) ==
    /\ UNCHANGED bench
    /\ starts[s].pc = "permission"
    /\ CASE outcome = "ok" ->
              /\ starts' = [starts EXCEPT ![s].pc = "wait"]
              /\ wakeLock' = IF acquired THEN 1 ELSE wakeLock
              /\ journeys' = journeys @@ (s :> JourneyCreate(now))
              /\ now' = now + 1
              /\ currentJourney' = s
              /\ isRecording' = TRUE
              /\ watchId' = s
              /\ watches' = watches \cup {s}
              /\ UNCHANGED errorMessage
         [] outcome = "denied" ->
              /\ starts' = [starts EXCEPT ![s].pc = "done"]
              /\ errorMessage' = "Location permission is required"
              /\ UNCHANGED <<isRecording, currentJourney, watchId, wakeLock,
                             watches, now, journeys>>
         [] OTHER ->
              /\ starts' = [starts EXCEPT ![s].pc = "done"]
              /\ startRecordingCatch(translateError(outcome))
              /\ UNCHANGED <<currentJourney, watchId, wakeLock, watches, now,
                             journeys>>
    /\ UNCHANGED <<intervalId, latestPosition, onDataPointRecorded, timers,
                   storage, stops, cycles>>

\* The guard of recordDataPoint(): TRUE iff the call returns at once.
recordGuard == ~isRecording \/ currentJourney = Null

\* A recordDataPoint() that does not look at latestPosition and always asks
\* for the current position.
BeginCycleAlwaysAsks(c, owner) ==
    cycles' = [cycles EXCEPT ![c] =
                 [NewCycle EXCEPT !.owner = owner, !.session = currentJourney,
                                  !.pc = "position"]]

\* recordDataPoint() from its guard to its first await: the latest watched
\* position is used if there is one, otherwise a one-shot request is made.
BeginCycle(c, owner) ==
    cycles' = [cycles EXCEPT ![c] =
                 [NewCycle EXCEPT !.owner = owner,
                                  !.session = currentJourney,
                                  !.position = latestPosition,
                                  !.pc = IF latestPosition = NoPosition
                                           THEN "position" ELSE "speed"]]

\* setInterval(...) at the end of startRecording().
ScheduleInterval(s) ==
    /\ intervalId' = s
    /\ timers' = timers \cup {s}
    /\ starts' = [starts EXCEPT ![s].pc = "done"]

\* The 500 ms wait is over: the first recordDataPoint() is called; if it
\* returns at once the interval is scheduled in the same task.
StartWaitDone(s) ==
    /\ UNCHANGED bench
    /\ starts[s].pc = "wait"
    /\ IF recordGuard
         THEN /\ ScheduleInterval(s)
              /\ UNCHANGED cycles
         ELSE /\ Events < MaxEvents
              /\ \E c \in CycleIds : NextCycle(c) /\ BeginCycle(c, s)
              /\ starts' = [starts EXCEPT ![s].pc = "record"]
              /\ UNCHANGED <<intervalId, timers>>
    /\ UNCHANGED <<isRecording, currentJourney, watchId, latestPosition, wakeLock,
                   onDataPointRecorded, errorMessage, watches, now, journeys,
                   storage, stops>>

\* ---- platform callbacks --------------------------------------------------

\* The interval t fires: recordDataPoint() is called.  A call that returns at
\* its guard changes nothing.
Tick(t) ==
    /\ UNCHANGED bench
    /\ Events < MaxEvents
    /\ t \in timers
    /\ ~recordGuard
    /\ \E c \in CycleIds : NextCycle(c) /\ BeginCycle(c, Null)
    /\ UNCHANGED <<ctrl, onDataPointRecorded, timers, watches, now, journeys,
                   storage, starts, stops>>

\* The watch w delivers a fix: the onPosition callback of startRecording().
WatchFix(w, position) ==
    /\ UNCHANGED bench
    /\ w \in watches
    /\ latestPosition # position
    /\ latestPosition' = position
    /\ UNCHANGED <<isRecording, currentJourney, intervalId, watchId, wakeLock,
                   onDataPointRecorded, errorMessage, timers, watches, now,
                   journeys, storage, starts, stops, cycles>>


\* ---- CollectorView.recordDataPoint ---------------------------------------

\* recordDataPoint() returns.  The call made by startRecording() is awaited
\* there: startRecording() goes on in a microtask and schedules the interval.
FinishCycle(c) ==
    IF cycles[c].owner # Null
      THEN ScheduleInterval(cycles[c].owner)
      ELSE UNCHANGED <<intervalId, timers, starts>>

\* The record of a call that has returned: its locals are gone.
Returned(cy, result) ==
    [cy EXCEPT !.pc = result, !.position = NoPosition, !.dataPoint = NoDataPoint]

\* A catch block of recordDataPoint() that gives up the session.
recordDataPointCatchStops ==
    /\ isRecording' = FALSE
    /\ UNCHANGED currentJourney

\* The catch block of recordDataPoint(): the error is logged and shown in the
\* position and speed fields; no field of the controller is assigned.
recordDataPointCatch ==
    UNCHANGED <<isRecording, currentJourney>>

\* getCurrentPosition() of a cycle settles.
CyclePositionDone(c, outcome) ==
    /\ UNCHANGED bench
    /\ cycles[c].pc = "position"
    /\ IF outcome = "ok"
         THEN /\ cycles' = [cycles EXCEPT ![c].pc = "speed", ![c].position = Fix]
              /\ UNCHANGED <<isRecording, currentJourney, intervalId, timers, starts>>
         ELSE /\ cycles' = [cycles EXCEPT ![c] = Returned(@, "failed")]
              /\ recordDataPointCatch
              /\ FinishCycle(c)
    /\ UNCHANGED <<watchId, latestPosition, wakeLock, onDataPointRecorded,
                   errorMessage, watches, now, journeys, storage, stops>>

\* A data point stamped when its cycle was started instead of when it is
\* built: cycles are numbered in the order in which they start.
NewDataPointStampedAtStart(c, speedResult) ==
    [timestamp |-> c,
     latitude |-> cycles[c].position.latitude,
     longitude |-> cycles[c].position.longitude,
     accuracy |-> cycles[c].position.accuracy,
     speedMbps |-> speedResult.speedMbps,
     connectionType |-> speedResult.connectionType,
     cycle |-> c]

\* new DataPoint({...}) of a cycle.
NewDataPoint(c, speedResult) ==
    [timestamp |-> now,
     latitude |-> cycles[c].position.latitude,
     longitude |-> cycles[c].position.longitude,
     accuracy |-> cycles[c].position.accuracy,
     speedMbps |-> speedResult.speedMbps,
     connectionType |-> speedResult.connectionType,
     cycle |-> c]

\* TRUE iff the cycle may append its data point when measureSpeed() has
\* settled: the code only needs a journey to append to.
appendAllowed == currentJourney # Null

\* measureSpeed() settles: the data point is built and validated, appended to
\* this.currentJourney and saveJourney() is called.
CycleSpeedDone(c, speedResult) ==
    /\ UNCHANGED bench
    /\ cycles[c].pc = "speed"
    /\ now' = now + 1
    /\ LET dp == NewDataPoint(c, speedResult) IN
         IF validate(dp) /\ appendAllowed
           THEN /\ journeys' = [journeys EXCEPT ![currentJourney] = addDataPoint(@, dp)]
                /\ saveJourney(currentJourney, [kind |-> "cycle", id |-> c], journeys')
                /\ cycles' = [cycles EXCEPT ![c].pc = "save", ![c].dataPoint = dp,
                                            ![c].position = NoPosition]
                /\ UNCHANGED <<isRecording, currentJourney, intervalId, timers, starts>>
           ELSE /\ cycles' = [cycles EXCEPT ![c] = Returned(@, "failed")]
                /\ recordDataPointCatch
                /\ FinishCycle(c)
                /\ UNCHANGED <<journeys, storage>>
    /\ UNCHANGED <<watchId, latestPosition, wakeLock, onDataPointRecorded,
                   errorMessage, watches, stops>>

\* The listener call at the end of recordDataPoint(): the number of calls
\* made for the cycle and the journey passed with its data point.
NotifyListener(cy) ==
    IF onDataPointRecorded
      THEN [cy EXCEPT !.notifyCount = @ + 1, !.notifyJourney = currentJourney]
      ELSE cy

\* saveJourney() of a cycle settles: the listener is notified, or the
\* rejection is caught.  The storage variables are left to the caller.
CycleSaved(c, ok) ==
    /\ cycles[c].pc = "save"
    /\ IF ok
         THEN /\ cycles' = [cycles EXCEPT ![c] = Returned(NotifyListener(@), "ok")]
              /\ UNCHANGED <<isRecording, currentJourney>>
         ELSE /\ cycles' = [cycles EXCEPT ![c] = Returned(@, "failed")]
              /\ recordDataPointCatch
    /\ FinishCycle(c)
    /\ UNCHANGED <<watchId, latestPosition, wakeLock, onDataPointRecorded,
                   errorMessage, watches, now, journeys, stops>>

\* ---- CollectorView.stopRecording -----------------------------------------

\* A guard of stopRecording() that looks at the journey reference only.
stopGuardJourneyOnly == currentJourney = Null

\* The guard of stopRecording(): TRUE iff the call returns at once.
stopGuard == ~isRecording \/ currentJourney = Null

\* A stopRecording() that cancels the interval and leaves the watch and the
\* latest position to the end of the call.
StopCancelIntervalOnly ==
    /\ timers' = IF intervalId # Null THEN timers \ {intervalId} ELSE timers
    /\ intervalId' = Null
    /\ UNCHANGED <<watches, watchId, latestPosition>>

\* clearInterval, clearWatch and the reset of latestPosition.
StopCancel ==
    /\ timers' = IF intervalId # Null THEN timers \ {intervalId} ELSE timers
    /\ intervalId' = Null
    /\ watches' = IF watchId # Null THEN watches \ {watchId} ELSE watches
    /\ watchId' = Null
    /\ latestPosition' = NoPosition

\* this.currentJourney.end() and the call of saveJourney().
StopEndAndSave(s) ==
    /\ journeys' = [journeys EXCEPT ![currentJourney] = end(@, now)]
    /\ now' = now + 1
    /\ saveJourney(currentJourney, [kind |-> "stop", id |-> s], journeys')

\* stopRecording() up to its first real suspension: wakeLock.release() if a
\* wake lock is held, otherwise the final saveJourney().
StopRecording(s, confirmed) ==
    /\ UNCHANGED bench
    /\ Events < MaxEvents
    /\ NextStop(s)
    /\ IF stopGuard
         THEN /\ stops' = [stops EXCEPT ![s].pc = "returned"]
              /\ UNCHANGED <<intervalId, watchId, latestPosition, timers, watches,
                             now, journeys, storage>>
         ELSE IF ~confirmed
         THEN /\ stops' = [stops EXCEPT ![s].pc = "returned"]
              /\ UNCHANGED <<intervalId, watchId, latestPosition, timers, watches,
                             now, journeys, storage>>
         ELSE /\ StopCancel
              /\ IF wakeLock # Null
                   THEN /\ stops' = [stops EXCEPT ![s].pc = "release"]
                        /\ UNCHANGED <<now, journeys, storage>>
                   ELSE /\ stops' = [stops EXCEPT ![s].pc = "save"]
                        /\ StopEndAndSave(s)
    /\ UNCHANGED <<isRecording, currentJourney, wakeLock, onDataPointRecorded,
                   errorMessage, starts, cycles>>

\* wakeLock.release() resolves; this.currentJourney.end() throws a TypeError
\* if the journey reference has been discarded in the meantime.
StopReleaseDone(s) ==
    /\ UNCHANGED bench
    /\ stops[s].pc = "release"
    /\ wakeLock' = Null
    /\ IF currentJourney = Null
         THEN /\ stops' = [stops EXCEPT ![s].pc = "done"]
              /\ UNCHANGED <<now, journeys, storage>>
         ELSE /\ stops' = [stops EXCEPT ![s].pc = "save"]
              /\ StopEndAndSave(s)
    /\ UNCHANGED <<isRecording, currentJourney, intervalId, watchId, latestPosition,
                   onDataPointRecorded, errorMessage, timers, watches,
                   starts, cycles>>

\* The transition of stopRecording() after its try/catch around the save.
StopToIdle ==
    /\ isRecording' = FALSE
    /\ currentJourney' = Null

\* A stopRecording() that returns from its catch block when the final save
\* fails.
StopSavedReturnsOnFailure(s, ok) ==
    /\ stops[s].pc = "save"
    /\ errorMessage' = IF ok THEN errorMessage ELSE "Failed to save journey"
    /\ IF ok THEN StopToIdle ELSE UNCHANGED <<isRecording, currentJourney>>
    /\ stops' = [stops EXCEPT ![s].pc = "done"]
    /\ UNCHANGED <<intervalId, watchId, latestPosition, wakeLock, onDataPointRecorded,
                   timers, watches, now, journeys, starts, cycles>>

\* The final saveJourney() settles.  The storage variables are left to the
\* caller.
StopSaved(s, ok) ==
    /\ stops[s].pc = "save"
    /\ errorMessage' = IF ok THEN errorMessage ELSE "Failed to save journey"
    /\ StopToIdle
    /\ stops' = [stops EXCEPT ![s].pc = "done"]
    /\ UNCHANGED <<intervalId, watchId, latestPosition, wakeLock, onDataPointRecorded,
                   timers, watches, now, journeys, starts, cycles>>

\* ---- IndexedDB requests settle -------------------------------------------

\* The continuation of the caller of saveJourney().
Resume(caller, ok) ==
    IF caller.kind = "cycle" THEN CycleSaved(caller.id, ok) ELSE StopSaved(caller.id, ok)

\* The oldest indexedDB.open request of open() settles.  onsuccess sets
\* this.db; saveJourney() then places its put request with the journey as it
\* is now.  onerror rejects saveJourney().
OpenDone(ok) ==
    /\ UNCHANGED bench
    /\ opening # << >>
    /\ opening' = Tail(opening)
    /\ LET o == Head(opening) IN
         IF ok
           THEN /\ db' = 1
                /\ putQueue' = Append(putQueue,
                       [journey |-> o.journey,
                        value |-> toJSON(o.journey, journeys[o.journey]),
                        caller |-> o.caller])
                /\ UNCHANGED <<ctrl, onDataPointRecorded, timers, watches, now,
                               journeys, store, starts, stops, cycles>>
           ELSE /\ UNCHANGED <<db, putQueue, store>>
                /\ Resume(o.caller, FALSE)

\* The oldest put request settles: onsuccess after the record has replaced
\* the one stored under its id, or onerror with the store unchanged.
PutDone(ok) ==
    /\ UNCHANGED bench
    /\ putQueue # << >>
    /\ putQueue' = Tail(putQueue)
    /\ LET p == Head(putQueue) IN
         /\ store' = IF ok
                       THEN [k \in DOMAIN store \cup {p.journey} |->
                               IF k = p.journey THEN p.value ELSE store[k]]
                       ELSE store
         /\ Resume(p.caller, ok)
    /\ UNCHANGED <<db, opening>>

\* ---- specification -------------------------------------------------------

Next ==
    \/ \E s \in StartIds : StartRecording(s)
    \/ \E s \in StartIds, o \in PositionOutcomes, a \in BOOLEAN :
          StartPermissionDone(s, o, a)
    \/ \E s \in StartIds : StartWaitDone(s)
    \/ \E t \in SessionIds : Tick(t)
    \/ \E w \in SessionIds : WatchFix(w, Fix)
    \/ \E c \in CycleIds, o \in PositionOutcomes : CyclePositionDone(c, o)
    \/ \E c \in CycleIds, r \in SpeedResults : CycleSpeedDone(c, r)
    \/ \E s \in StopIds, k \in BOOLEAN : StopRecording(s, k)
    \/ \E s \in StopIds : StopReleaseDone(s)
    \/ \E ok \in BOOLEAN : OpenDone(ok)
    \/ \E ok \in BOOLEAN : PutDone(ok)

Spec == Init /\ [][Next]_vars

\* The IndexedDB requests settle and the promise of wakeLock.release()
\* resolves: the platform delivers every pending completion.
FairSpec ==
    /\ Spec
    /\ WF_vars(\E ok \in BOOLEAN : OpenDone(ok))
    /\ WF_vars(\E ok \in BOOLEAN : PutDone(ok))
    /\ \A s \in StopIds : WF_vars(StopReleaseDone(s))

\* ---- the controller in a recording session ---------------------------------

\* The controller is recording: startRecording() has run to its end, its
\* first recordDataPoint() has failed for want of a position, and the
\* interval is scheduled.  Nothing has been saved yet.
RecordingInit ==
    /\ isRecording = TRUE
    /\ currentJourney = Earlier
    /\ intervalId = Earlier
    /\ watchId = Earlier
    /\ latestPosition \in {NoPosition, Fix}
    /\ wakeLock = 1
    /\ errorMessage = ""
    /\ timers = {Earlier}
    /\ watches = {Earlier}
    /\ now = 2
    /\ journeys = (Earlier :> JourneyCreate(1))
    /\ db = Null
    /\ opening = << >>
    /\ putQueue = << >>
    /\ store = << >>
    /\ starts = [s \in StartIds |-> [pc |-> "new", fromIdle |-> FALSE]]
    /\ stops = [s \in StopIds |-> [pc |-> "new"]]
    /\ cycles = [c \in CycleIds |-> NewCycle]
    /\ onDataPointRecorded \in BOOLEAN
    /\ BenchIdle

\* The session goes on and is stopped; startRecording() is not called again.
RecordingNext ==
    \/ \E t \in SessionIds : Tick(t)
    \/ \E w \in SessionIds : WatchFix(w, Fix)
    \/ \E c \in CycleIds, o \in PositionOutcomes : CyclePositionDone(c, o)
    \/ \E c \in CycleIds, r \in SpeedResults : CycleSpeedDone(c, r)
    \/ \E s \in StopIds, k \in BOOLEAN : StopRecording(s, k)
    \/ \E s \in StopIds : StopReleaseDone(s)
    \/ \E ok \in BOOLEAN : OpenDone(ok)
    \/ \E ok \in BOOLEAN : PutDone(ok)

RecordingSpec == RecordingInit /\ [][RecordingNext]_vars

\* ---- the latest position of a session on the move --------------------------

\* The controller is recording and its watch has not delivered a fix yet.
SlotInit ==
    /\ RecordingInit
    /\ latestPosition = NoPosition
    /\ onDataPointRecorded = FALSE

\* The session goes on while the device moves: the watch delivers one fix
\* after the other.  The position request, the measurement and the store do
\* not fail.
SlotNext ==
    \/ \E t \in SessionIds : Tick(t)
    \/ \E w \in SessionIds, position \in Fixes : WatchFix(w, position)
    \/ \E c \in CycleIds : CyclePositionDone(c, "ok")
    \/ \E c \in CycleIds :
          CycleSpeedDone(c, [speedMbps |-> 3, connectionType |-> "wifi"])
    \/ \E s \in StopIds, k \in BOOLEAN : StopRecording(s, k)
    \/ \E s \in StopIds : StopReleaseDone(s)
    \/ OpenDone(TRUE)
    \/ PutDone(TRUE)

SlotSpec == SlotInit /\ [][SlotNext]_vars

\* ---- one session after the other ---------------------------------------------

\* The session goes on, is stopped, and the next one is started once the
\* controller is Idle again (the start button is shown when isRecording is
\* false).  Permission is granted, and the position request, the measurement
\* and the store do not fail.
RestartNext ==
    \/ \E t \in SessionIds : Tick(t)
    \/ \E w \in SessionIds : WatchFix(w, Fix)
    \/ \E c \in CycleIds : CyclePositionDone(c, "ok")
    \/ \E c \in CycleIds :
          CycleSpeedDone(c, [speedMbps |-> 3, connectionType |-> "wifi"])
    \/ \E s \in StopIds, k \in BOOLEAN : StopRecording(s, k)
    \/ \E s \in StopIds : StopReleaseDone(s)
    \/ OpenDone(TRUE)
    \/ PutDone(TRUE)
    \/ \E s \in StartIds : Idle /\ StartRecording(s)
    \/ \E s \in StartIds, a \in BOOLEAN : StartPermissionDone(s, "ok", a)
    \/ \E s \in StartIds : StartWaitDone(s)

RestartSpec == SlotInit /\ [][RestartNext]_vars

\* ---- the map view deletes while the controller records ------------------------

\* MapView.deleteCurrentJourney() for the journey id shown on the map, from
\* the confirmation to the end of `await deleteJourney(id)`.  The call is made
\* while no request of the controller is under way, so its delete request is
\* the next one served.
MapDeleteCurrentJourney(id) ==
    /\ Len(clients) < MaxCalls
    /\ id \in DOMAIN store
    /\ db # Null /\ opening = << >> /\ putQueue = << >>
    /\ store' = [k \in DOMAIN store \ {id} |-> store[k]]
    /\ clients' = Append(clients,
                     [op |-> "delete", arg |-> id, pc |-> "settled",
                      reply |-> [status |-> "resolved"]])
    /\ UNCHANGED <<ctrl, onDataPointRecorded, timers, watches, now, journeys, db,
                   opening, putQueue, calls, pointVars, journeyVars, probeVars,
                   requests, transaction>>

\* The session goes on, and is stopped, while the map view is used.  The
\* position request, the measurement and the store do not fail.
DeleteNext ==
    \/ \E t \in SessionIds : Tick(t)
    \/ \E w \in SessionIds : WatchFix(w, Fix)
    \/ \E c \in CycleIds : CyclePositionDone(c, "ok")
    \/ \E c \in CycleIds :
          CycleSpeedDone(c, [speedMbps |-> 3, connectionType |-> "wifi"])
    \/ \E s \in StopIds, k \in BOOLEAN : StopRecording(s, k)
    \/ \E s \in StopIds : StopReleaseDone(s)
    \/ OpenDone(TRUE)
    \/ PutDone(TRUE)
    \/ \E id \in SessionIds : MapDeleteCurrentJourney(id)

DeleteSpec == SlotInit /\ [][DeleteNext]_vars

\* ---- DataPoint on its own --------------------------------------------------

\* Arguments of the DataPoint constructor: for every field the values at and
\* next to its bounds, and values that are not numbers.
Timestamps == {Number(0), Number(1), NaN, Text}

Latitudes == {Number(-91), Number(-90), Number(90), Number(91), NaN}

Longitudes == {Number(-181), Number(-180), Number(180), Number(181)}

Accuracies == {Number(-1), Number(0), Number(5)}

Speeds == {JsNull, Number(-1), NaN, Text} \cup {Number(n) : n \in 0..MaxSpeed}

ConnectionTypes == validConnectionTypes \cup {"5G"}

DataInputs ==
    [timestamp : Timestamps, latitude : Latitudes, longitude : Longitudes,
     accuracy : Accuracies, speedMbps : Speeds, connectionType : ConnectionTypes]

PointInit ==
    /\ Constructed
    /\ onDataPointRecorded = FALSE
    /\ data \in DataInputs
    /\ point = NoPoint
    /\ quality = "none"
    /\ restored = NoPoint
    /\ JourneyIdle
    /\ ClientIdle
    /\ ProbeIdle

\* new DataPoint(data)
Construct ==
    /\ point = NoPoint
    /\ point' = DataPointNew(data)
    /\ UNCHANGED <<app, journeyVars, clientVars, probeVars, data, quality, restored>>

\* point.getQuality()
GetQuality ==
    /\ point.error = "none"
    /\ quality = "none"
    /\ quality' = getQuality(point.value)
    /\ UNCHANGED <<app, journeyVars, clientVars, probeVars, data, point, restored>>

\* DataPoint.fromJSON(point.toJSON())
RoundTrip ==
    /\ point.error = "none"
    /\ restored = NoPoint
    /\ restored' = DataPointFromJSON(DataPointToJSON(point.value))
    /\ UNCHANGED <<app, journeyVars, clientVars, probeVars, data, point, quality>>

PointNext ==
    \/ Construct
    \/ GetQuality
    \/ RoundTrip

PointSpec == PointInit /\ [][PointNext]_vars

\* ---- Journey on its own ----------------------------------------------------

\* The argument of a DataPoint with the given throughput, and one whose
\* latitude is out of bounds.  The journey under test is given data points of
\* every quality class.
SampleInput(speed) ==
    [timestamp |-> Number(1), latitude |-> Number(Fix.latitude),
     longitude |-> Number(Fix.longitude), accuracy |-> Number(Fix.accuracy),
     speedMbps |-> speed,
     connectionType |-> IF speed = JsNull THEN "offline" ELSE "wifi"]

BadSampleInput == [SampleInput(JsNull) EXCEPT !.latitude = Number(91)]

SampleInputs ==
    {SampleInput(JsNull), BadSampleInput}
        \cup {SampleInput(Number(n)) : n \in {0, speedThresholds.moderate, MaxSpeed}}

\* Arguments of the Journey constructor.
JourneyInputs ==
    [id : {"", "j1"}, name : {"", "Journey"}, startTime : 0..MaxTime,
     endTime : 0..MaxTime,
     dataPoints : {<< >>, <<SampleInput(Number(1))>>, <<BadSampleInput>>}]

JourneyInit ==
    /\ Constructed
    /\ onDataPointRecorded = FALSE
    /\ PointIdle
    /\ JourneyIdle
    /\ ClientIdle
    /\ ProbeIdle

journeyFrame ==
    <<ctrl, onDataPointRecorded, timers, watches, journeys, storage, calls, pointVars,
      clientVars, probeVars>>

\* The journey under test may still be changed.
Open == journey.error = "none" /\ stats = NoStats /\ revived = NoJourney

\* new Journey(d)
JourneyConstruct(d) ==
    /\ journey = NoJourney
    /\ journey' = JourneyNew(d)
    /\ UNCHANGED <<journeyFrame, now, stats, revived>>

\* Journey.create()
JourneyCreateNow ==
    /\ journey = NoJourney
    /\ journey' = JourneyNew([id |-> ""] @@ JourneyCreate(now))
    /\ now' = now + 1
    /\ UNCHANGED <<journeyFrame, stats, revived>>

\* journey.addDataPoint(d) with a plain object: DataPoint.fromJSON throws for
\* an invalid one and nothing is appended.
JourneyAddDataPoint(d) ==
    /\ Open
    /\ Len(journey.value.dataPoints) < MaxPoints
    /\ LET p == DataPointFromJSON(d) IN
         journey' = IF p.error = "none"
                      THEN [journey EXCEPT !.value = addDataPoint(@, p.value)]
                      ELSE journey
    /\ UNCHANGED <<journeyFrame, now, stats, revived>>

\* journey.end(t)
JourneyEnd(t) ==
    /\ Open
    /\ journey' = [journey EXCEPT !.value = end(@, t)]
    /\ UNCHANGED <<journeyFrame, now, stats, revived>>

\* journey.end(): the timestamp is Date.now()
JourneyEndNow ==
    /\ Open
    /\ now <= MaxTime
    /\ journey' = [journey EXCEPT !.value = end(@, now)]
    /\ now' = now + 1
    /\ UNCHANGED <<journeyFrame, stats, revived>>

\* journey.getStats(); getDuration() reads the clock of an ongoing journey.
JourneyGetStats ==
    /\ journey.error = "none"
    /\ stats = NoStats
    /\ stats' = getStats(journey.value, now)
    /\ now' = IF journey.value.endTime # Null THEN now ELSE now + 1
    /\ UNCHANGED <<journeyFrame, journey, revived>>

\* Journey.fromJSON(journey.toJSON())
JourneyRoundTrip ==
    /\ journey.error = "none"
    /\ revived = NoJourney
    /\ revived' = JourneyFromJSON(JourneyToJSON(journey.value))
    /\ UNCHANGED <<journeyFrame, now, journey, stats>>

JourneyNext ==
    \/ \E d \in JourneyInputs : JourneyConstruct(d)
    \/ JourneyCreateNow
    \/ \E d \in SampleInputs : JourneyAddDataPoint(d)
    \/ \E t \in 1..MaxTime : JourneyEnd(t)
    \/ JourneyEndNow
    \/ JourneyGetStats
    \/ JourneyRoundTrip

JourneySpec == JourneyInit /\ [][JourneyNext]_vars

\* ---- StorageService on its own ---------------------------------------------

\* An IDBObjectStore.put that keeps a record already stored under the id.
putKeepsFirst(st, v) ==
    [k \in DOMAIN st \cup {v.id} |-> IF k \in DOMAIN st THEN st[k] ELSE v]

\* IDBObjectStore.put(value) on the store with key path 'id': the record
\* replaces the one stored under its id.
put(st, v) ==
    [k \in DOMAIN st \cup {v.id} |-> IF k = v.id THEN v ELSE st[k]]

\* An IDBObjectStore.delete that removes every record.
deleteEverything(st, id) == [k \in DOMAIN st \ (DOMAIN st \cup {id}) |-> st[k]]

\* IDBObjectStore.delete(id)
delete(st, id) == [k \in DOMAIN st \ {id} |-> st[k]]

\* The ids of the journeys of the client, in key order.
StoreIds == <<"a", "b">>

KeyRank(id) == CHOOSE i \in 1..Len(StoreIds) : StoreIds[i] = id

\* The order of the index 'startTime': by startTime, records with the same
\* startTime by primary key.
IndexBefore(a, b) ==
    \/ a.startTime < b.startTime
    \/ a.startTime = b.startTime /\ KeyRank(a.id) < KeyRank(b.id)

\* The key a cursor of direction 'next' starts at: the first of the index.
cursorStartNext(st) ==
    CHOOSE k \in DOMAIN st : \A m \in DOMAIN st \ {k} : IndexBefore(st[k], st[m])

\* The key a cursor of direction 'prev' starts at: the last of the index.
cursorStart(st) ==
    CHOOSE k \in DOMAIN st : \A m \in DOMAIN st \ {k} : IndexBefore(st[m], st[k])

\* store.index('startTime').openCursor(null, 'prev') with cursor.continue()
\* to the end: the records from the last of the index to the first.
RECURSIVE openCursor(_)
openCursor(st) ==
    IF DOMAIN st = {} THEN << >>
    ELSE <<st[cursorStart(st)]>> \o openCursor([k \in DOMAIN st \ {cursorStart(st)} |-> st[k]])

\* The journeys a client saves: valid journeys with one data point.
StoreInputs ==
    [id : {StoreIds[i] : i \in 1..Len(StoreIds)}, name : {"Journey"}, startTime : {1, 2},
     endTime : {Null}, dataPoints : {<<SampleInput(Number(1))>>}]

StoreJourneys == {JourneyNew(d).value : d \in StoreInputs}

Undefined == [type |-> "undefined", val |-> 0]

NoReply == [status |-> "none"]

Resolved(value) == [status |-> "resolved", value |-> value]

Rejected(message) == [status |-> "rejected", message |-> message]

\* The text of a file: text that is not JSON, or the JSON text of a data
\* object.
NotJSON == [json |-> FALSE]

FileOf(object) == [json |-> TRUE, data |-> object]

\* JSON.parse(event.target.result)
JSONParse(text) ==
    IF text.json THEN [error |-> "none", value |-> text.data] ELSE [error |-> "SyntaxError"]

\* A reader.onload that saves data.journey as it is, without building the
\* Journey.
ImportParsedUnchecked(text) ==
    IF JSONParse(text).error # "none" THEN [error |-> JSONParse(text).error]
    ELSE IF JSONParse(text).value.journey \in {Undefined, JsNull}
           THEN [error |-> "Invalid journey file format"]
           ELSE [error |-> "none", value |-> JSONParse(text).value.journey]

\* reader.onload up to `await this.saveJourney(journey)`: the journey that is
\* saved, or the error that is thrown.
ImportParsed(text) ==
    IF JSONParse(text).error # "none" THEN [error |-> JSONParse(text).error]
    ELSE IF JSONParse(text).value.journey \in {Undefined, JsNull}
           THEN [error |-> "Invalid journey file format"]
           ELSE JourneyFromJSON(JSONParse(text).value.journey)

\* new Error(message)
Error(message) == [prefix |-> "", cause |-> message]

\* new Error(`Failed to import journey: ${error.message}`)
ImportError(cause) == [prefix |-> "Failed to import journey", cause |-> cause]

StoreInit ==
    /\ Constructed
    /\ onDataPointRecorded = FALSE
    /\ BenchIdle

storeFrame ==
    <<ctrl, onDataPointRecorded, timers, watches, now, journeys, opening, putQueue,
      calls, pointVars, journeyVars, probeVars>>

\* A method of the StorageService is called: `await this.open()`.  With the
\* database open the request is placed in the same task, otherwise
\* indexedDB.open is requested first.
StoreCall(op, arg) ==
    /\ Len(clients) < MaxCalls
    /\ clients' = Append(clients,
                     [op |-> op, arg |-> arg, reply |-> NoReply,
                      pc |-> IF db # Null THEN "pending" ELSE "opening"])
    /\ requests' = IF db # Null THEN Append(requests, Len(clients) + 1) ELSE requests
    /\ UNCHANGED <<storeFrame, transaction, db, store>>

SaveJourney(j) == StoreCall("save", j)

GetJourney(id) == StoreCall("get", id)

GetAllJourneys == StoreCall("getAll", "")

DeleteJourney(id) == StoreCall("delete", id)

ClearAll == StoreCall("clear", "")

\* The oldest indexedDB.open request of a client call settles.
ClientOpened(ok) ==
    /\ \E k \in DOMAIN clients : clients[k].pc = "opening"
    /\ LET k == CHOOSE i \in DOMAIN clients :
                   /\ clients[i].pc = "opening"
                   /\ \A m \in DOMAIN clients : clients[m].pc = "opening" => i <= m
       IN  IF ok
             THEN /\ db' = 1
                  /\ clients' = [clients EXCEPT ![k].pc = "pending"]
                  /\ requests' = Append(requests, k)
             ELSE /\ db' = db
                  /\ clients' = [clients EXCEPT
                                   ![k].pc = "settled",
                                   ![k].reply = IF clients[k].op = "import"
                                                  THEN Rejected(ImportError("Failed to open database"))
                                                  ELSE Rejected(Error("Failed to open database"))]
                  /\ requests' = requests
    /\ UNCHANGED <<storeFrame, transaction, store>>

\* The journeys of the records, or the first error Journey.fromJSON throws.
Revive(records) ==
    LET js == [i \in DOMAIN records |-> JourneyFromJSON(records[i])]
    IN  IF \E i \in DOMAIN js : js[i].error # "none"
          THEN [error |-> "thrown"]
          ELSE [error |-> "none", value |-> [i \in DOMAIN js |-> js[i].value]]

\* The call record after its request has succeeded on the store st.  An
\* error thrown by Journey.fromJSON in the onsuccess handler leaves the promise
\* pending.
Succeeded(c, st) ==
    CASE c.op = "get" ->
           IF c.arg \in DOMAIN st
             THEN IF Revive(<<st[c.arg]>>).error = "none"
                    THEN [c EXCEPT !.pc = "settled",
                                   !.reply = Resolved(Revive(<<st[c.arg]>>).value[1])]
                    ELSE [c EXCEPT !.pc = "hung"]
             ELSE [c EXCEPT !.pc = "settled", !.reply = Resolved(JsNull)]
      [] c.op = "getAll" ->
           IF Revive(openCursor(st)).error = "none"
             THEN [c EXCEPT !.pc = "settled",
                            !.reply = Resolved(Revive(openCursor(st)).value)]
             ELSE [c EXCEPT !.pc = "hung"]
      [] c.op = "import" ->
           [c EXCEPT !.pc = "settled", !.reply = Resolved(ImportParsed(c.arg).value)]
      [] OTHER -> [c EXCEPT !.pc = "settled", !.reply = Resolved(Undefined)]

\* The message of the error a call rejects with when its request fails.
Failed(c) ==
    [c EXCEPT !.pc = "settled",
              !.reply = Rejected(CASE c.op = "save" -> Error("Failed to save journey")
                                   [] c.op = "get" -> Error("Failed to get journey")
                                   [] c.op = "getAll" -> Error("Failed to get journeys")
                                   [] c.op = "delete" -> Error("Failed to delete journey")
                                   [] c.op = "import" -> ImportError("Failed to save journey")
                                   [] OTHER -> Error("Failed to clear database"))]

\* A request whose import writes its record over an emptied store.
carriedOutOnEmptied(c, st) ==
    CASE c.op = "save" -> put(st, JourneyToJSON(c.arg))
      [] c.op = "import" -> put(<< >>, JourneyToJSON(ImportParsed(c.arg).value))
      [] c.op = "delete" -> delete(st, c.arg)
      [] c.op = "clear" -> << >>
      [] OTHER -> st

\* The store after the request of the call c has been carried out on st.
carriedOut(c, st) ==
    CASE c.op = "save" -> put(st, JourneyToJSON(c.arg))
      [] c.op = "import" -> put(st, JourneyToJSON(ImportParsed(c.arg).value))
      [] c.op = "delete" -> delete(st, c.arg)
      [] c.op = "clear" -> << >>
      [] OTHER -> st

\* The oldest request on the object store settles: onsuccess after the
\* operation has been carried out, or onerror with the store unchanged.
RequestDone(ok) ==
    /\ requests # << >>
    /\ requests' = Tail(requests)
    /\ LET k == Head(requests)
           c == clients[k]
       IN  IF ok
             THEN /\ store' = carriedOut(c, store)
                  /\ clients' = [clients EXCEPT ![k] = Succeeded(c, store)]
             ELSE /\ store' = store
                  /\ clients' = [clients EXCEPT ![k] = Failed(c)]
    /\ UNCHANGED <<storeFrame, transaction, db>>

StoreNext ==
    \/ \E j \in StoreJourneys : SaveJourney(j)
    \/ \E id \in {StoreIds[i] : i \in 1..Len(StoreIds)} : GetJourney(id)
    \/ GetAllJourneys
    \/ \E id \in {StoreIds[i] : i \in 1..Len(StoreIds)} : DeleteJourney(id)
    \/ ClearAll
    \/ \E ok \in BOOLEAN : ClientOpened(ok)
    \/ \E ok \in BOOLEAN : RequestDone(ok)

StoreSpec == StoreInit /\ [][StoreNext]_vars

----------------------------------------------------------------------------
\* The StorageService with the transactions of the object store.  Every
\* method opens a transaction of its own for its one request
\* (db.transaction([storeName], mode)) and settles its promise in the
\* handlers of the request; no method listens to the transaction.  The
\* database runs the transactions on the store one after the other; a
\* transaction whose request has succeeded is committed, or it is aborted
\* when the commit fails and its changes are undone.

\* The transaction after its request has succeeded on the store st.
Committing(st) == [pc |-> "committing", before |-> st]

\* The request of the oldest transaction settles: request.onsuccess with the
\* operation carried out inside the transaction, or request.onerror, which
\* aborts the transaction.
TransactionRequest(ok) ==
    /\ transaction = NoTransaction
    /\ requests # << >>
    /\ requests' = Tail(requests)
    /\ LET k == Head(requests)
           c == clients[k]
       IN  IF ok
             THEN /\ store' = carriedOut(c, store)
                  /\ clients' = [clients EXCEPT ![k] = Succeeded(c, store)]
                  /\ transaction' = Committing(store)
             ELSE /\ store' = store
                  /\ clients' = [clients EXCEPT ![k] = Failed(c)]
                  /\ transaction' = NoTransaction
    /\ UNCHANGED <<storeFrame, db>>

\* The transaction is committed: the complete event, which no method handles.
TransactionComplete ==
    /\ transaction # NoTransaction
    /\ transaction' = NoTransaction
    /\ UNCHANGED <<storeFrame, db, store, clients, requests>>

\* The commit fails (quota, disk): the abort event, which no method handles;
\* the changes of the transaction are undone.
TransactionAbort ==
    /\ transaction # NoTransaction
    /\ store' = transaction.before
    /\ transaction' = NoTransaction
    /\ UNCHANGED <<storeFrame, db, clients, requests>>

CommitNext ==
    \/ \E j \in StoreJourneys : SaveJourney(j)
    \/ \E id \in {StoreIds[i] : i \in 1..Len(StoreIds)} : GetJourney(id)
    \/ GetAllJourneys
    \/ \E ok \in BOOLEAN : ClientOpened(ok)
    \/ \E ok \in BOOLEAN : TransactionRequest(ok)
    \/ TransactionComplete
    \/ TransactionAbort

CommitSpec == StoreInit /\ [][CommitNext]_vars

----------------------------------------------------------------------------
\* StorageService.open and close.  A connection is named by the call whose
\* indexedDB.open request opened it; db holds the connection kept in this.db.

\* open() is called, as every storage method does first.  With this.db set
\* it returns that connection; otherwise it makes an indexedDB.open request
\* of its own.
OpenDatabase ==
    /\ Len(clients) < MaxOpens
    /\ clients' = Append(clients,
                     IF db # Null
                       THEN [op |-> "open", arg |-> "", pc |-> "settled",
                             reply |-> Resolved(db)]
                       ELSE [op |-> "open", arg |-> "", pc |-> "opening",
                             reply |-> NoReply])
    /\ UNCHANGED <<storeFrame, transaction, db, store, requests>>

\* The oldest indexedDB.open request settles.  onsuccess stores the new
\* connection in this.db, whatever this.db holds, and resolves with it;
\* onerror rejects.
OpenSettled(ok) ==
    /\ \E k \in DOMAIN clients : clients[k].pc = "opening"
    /\ LET k == CHOOSE i \in DOMAIN clients :
                   /\ clients[i].pc = "opening"
                   /\ \A m \in DOMAIN clients : clients[m].pc = "opening" => i <= m
       IN  IF ok
             THEN /\ db' = k
                  /\ clients' = [clients EXCEPT ![k].pc = "settled",
                                                ![k].reply = Resolved(k)]
             ELSE /\ db' = db
                  /\ clients' = [clients EXCEPT
                                   ![k].pc = "settled",
                                   ![k].reply = Rejected(Error("Failed to open database"))]
    /\ UNCHANGED <<storeFrame, transaction, store, requests>>

\* close(): the connection in this.db is closed and this.db is reset; the
\* calls made so far belong to the time before this close.
Close ==
    /\ db # Null
    /\ db' = Null
    /\ clients' = [k \in DOMAIN clients |-> [clients[k] EXCEPT !.arg = "before close"]]
    /\ UNCHANGED <<storeFrame, transaction, store, requests>>

OpenNext ==
    \/ OpenDatabase
    \/ \E ok \in BOOLEAN : OpenSettled(ok)
    \/ Close

OpenSpec == StoreInit /\ [][OpenNext]_vars

\* ---- StorageService over a persisted database, with file import -------------

\* Records of the database: the record of a journey, the same record with an
\* end time before its start time, and with a data point that is out of
\* bounds.
Record(id, startTime) ==
    JourneyToJSON(JourneyNew([id |-> id, name |-> "Journey", startTime |-> startTime,
                              endTime |-> Null,
                              dataPoints |-> <<SampleInput(Number(1))>>]).value)

EndsEarly(record) == [record EXCEPT !.endTime = record.startTime - 1]

BadSample(record) == [record EXCEPT !.dataPoints = <<BadSampleInput>>]

\* The object stores an earlier session, or an edit of the database, has left.
PersistedStores ==
    {st \in UNION {[ids -> {Record(StoreIds[1], 1), Record(StoreIds[2], 2),
                            EndsEarly(Record(StoreIds[2], 2)),
                            BadSample(Record(StoreIds[2], 2))}] :
                     ids \in SUBSET {StoreIds[i] : i \in 1..Len(StoreIds)}} :
        \A id \in DOMAIN st : st[id].id = id}

\* The data object of an export file.
Export(version, exportedAt, record) ==
    [version |-> version, exportedAt |-> exportedAt, journey |-> record]

\* The files a client imports; "undefined" stands for a field that is missing.
Files ==
    {NotJSON,
     FileOf(Export("1.0", "2026-01-01T00:00:00.000Z", Undefined)),
     FileOf(Export("1.0", "2026-01-01T00:00:00.000Z", Record(StoreIds[1], 2))),
     FileOf(Export("1.0", "2026-01-01T00:00:00.000Z", EndsEarly(Record(StoreIds[1], 2)))),
     FileOf(Export("1.0", "2026-01-01T00:00:00.000Z", BadSample(Record(StoreIds[1], 2)))),
     FileOf(Export("undefined", "2026-01-01T00:00:00.000Z", Record(StoreIds[1], 2))),
     FileOf(Export("2.0", "2026-01-01T00:00:00.000Z", Record(StoreIds[1], 2))),
     FileOf(Export("1.0", "undefined", Record(StoreIds[1], 2)))}

ImportInit ==
    /\ \E persisted \in PersistedStores : ConstructedOver(persisted)
    /\ onDataPointRecorded = FALSE
    /\ BenchIdle

\* importJourney(file): the promise is created and reader.readAsText(file) is
\* started.
ImportJourney(file) ==
    /\ Len(clients) < MaxCalls
    /\ clients' = Append(clients,
                     [op |-> "import", arg |-> file, reply |-> NoReply, pc |-> "reading"])
    /\ UNCHANGED <<storeFrame, transaction, db, store, requests>>

\* reader.onerror, or reader.onload: the text is parsed, the journey is built
\* and saveJourney is called, or the error thrown on the way is wrapped and
\* rejects the promise.
FileRead(k, ok) ==
    /\ k \in DOMAIN clients
    /\ clients[k].pc = "reading"
    /\ LET c == clients[k]
       IN  IF ~ok
             THEN /\ clients' = [clients EXCEPT ![k].pc = "settled",
                                               ![k].reply = Rejected(Error("Failed to read file"))]
                  /\ requests' = requests
             ELSE IF ImportParsed(c.arg).error # "none"
                    THEN /\ clients' = [clients EXCEPT
                                          ![k].pc = "settled",
                                          ![k].reply = Rejected(ImportError(ImportParsed(c.arg).error))]
                         /\ requests' = requests
                    ELSE /\ clients' = [clients EXCEPT
                                          ![k].pc = IF db # Null THEN "pending" ELSE "opening"]
                         /\ requests' = IF db # Null THEN Append(requests, k) ELSE requests
    /\ UNCHANGED <<storeFrame, transaction, db, store>>

ImportNext ==
    \/ \E file \in Files : Len(clients) < MaxFiles /\ ImportJourney(file)
    \/ \E id \in {StoreIds[i] : i \in 1..Len(StoreIds)} : Len(clients) < MaxFiles /\ GetJourney(id)
    \/ Len(clients) < MaxFiles /\ GetAllJourneys
    \/ \E k \in 1..MaxCalls, ok \in BOOLEAN : FileRead(k, ok)
    \/ \E ok \in BOOLEAN : ClientOpened(ok)
    \/ \E ok \in BOOLEAN : RequestDone(ok)

ImportSpec == ImportInit /\ [][ImportNext]_vars

----------------------------------------------------------------------------
\* exportJourney followed by importJourney of the file it has written.

\* JSON.stringify of a number: NaN and Infinity are written as null.
JSONStringifyNumber(v) == IF v.type \in {"NaN", "Infinity"} THEN JsNull ELSE v

\* JSON.stringify(exportData, null, 2): the text of the file.  Strings, null
\* and finite numbers are written as they are.
JSONStringify(exportData) ==
    FileOf([exportData EXCEPT !.journey.dataPoints =
              [i \in DOMAIN @ |->
                 [timestamp |-> JSONStringifyNumber(@[i].timestamp),
                  latitude |-> JSONStringifyNumber(@[i].latitude),
                  longitude |-> JSONStringifyNumber(@[i].longitude),
                  accuracy |-> JSONStringifyNumber(@[i].accuracy),
                  speedMbps |-> JSONStringifyNumber(@[i].speedMbps),
                  connectionType |-> @[i].connectionType]]])

\* A journey with one sample, as the constructor builds it.
JourneyWith(sample) ==
    JourneyNew([id |-> StoreIds[1], name |-> "Journey", startTime |-> 2,
                endTime |-> Null, dataPoints |-> <<sample>>]).value

\* Journeys that are exported: ongoing and ended ones, one ended before its
\* start with end(1), one with a sample whose throughput was measured as
\* Infinity, and one with a sample whose latitude is NaN.
TransferJourneys ==
    {JourneyWith(SampleInput(Number(1))),
     JourneyWith(SampleInput(JsNull)),
     end(JourneyWith(SampleInput(Number(1))), 3),
     end(JourneyWith(SampleInput(Number(1))), 1),
     JourneyWith(SampleInput(Infinity)),
     JourneyWith([SampleInput(Number(1)) EXCEPT !.latitude = NaN])}

\* exportJourney(journey): the file that is shared or downloaded is kept as
\* the value of the call.
ExportJourney(j) ==
    /\ Len(clients) < MaxCalls
    /\ clients' = Append(clients,
                     [op |-> "export", arg |-> j, pc |-> "settled",
                      reply |-> Resolved(JSONStringify(
                                   Export("1.0", "2026-01-01T00:00:00.000Z",
                                          JourneyToJSON(j))))])
    /\ UNCHANGED <<storeFrame, transaction, db, store, requests>>

\* The file written by the export call e is imported.
ImportExported(e) ==
    /\ e \in DOMAIN clients
    /\ clients[e].op = "export"
    /\ ImportJourney(clients[e].reply.value)

TransferNext ==
    \/ \E j \in TransferJourneys : ExportJourney(j)
    \/ \E e \in 1..MaxCalls : ImportExported(e)
    \/ \E k \in 1..MaxCalls, ok \in BOOLEAN : FileRead(k, ok)
    \/ \E ok \in BOOLEAN : ClientOpened(ok)
    \/ \E ok \in BOOLEAN : RequestDone(ok)

TransferSpec == StoreInit /\ [][TransferNext]_vars

\* ---- SpeedTestService on its own --------------------------------------------

testFileSize == 150000    \* bytes

timeout == 5000           \* milliseconds

\* connection.type || connection.effectiveType as browsers report it;
\* "undefined" without navigator.connection or without either field.
ReportedTypes == {"undefined", "wifi", "cellular", "4g", "slow-2g", "ethernet"}

Navigators == [onLine : BOOLEAN, type : ReportedTypes]

\* A getConnectionType that hands on the type as the browser reports it.
getConnectionTypeAsReported(nav) ==
    IF ~nav.onLine THEN "offline"
    ELSE IF nav.type = "undefined" THEN "unknown"
    ELSE nav.type

\* SpeedTestService.getConnectionType
getConnectionType(nav) ==
    IF ~nav.onLine THEN "offline"
    ELSE IF nav.type = "undefined" THEN "unknown"
    ELSE IF nav.type = "wifi" THEN "wifi"
    ELSE IF nav.type \in {"cellular", "2g", "3g", "4g", "5g"} THEN "cellular"
    ELSE "unknown"

\* A rate in hundredths of Mbps.
Measured(hundredths) == [type |-> "number", val |-> hundredths]

\* Math.round(speedMbps * 100) of blob.size (or testFileSize) bytes read in
\* the given milliseconds; the result is this number divided by 100.
Rate(size, ms) ==
    LET bytesDownloaded == IF size = 0 THEN testFileSize ELSE size
    IN  IF ms = 0 THEN Infinity
        ELSE Measured((8 * bytesDownloaded + 5 * ms) \div (10 * ms))

\* Sizes of the blob and durations of the transfer, within the timeout.
BlobSizes == {0, testFileSize}

Durations == {0, 1, 1000, timeout - 1}

Absent(connectionType) == [speedMbps |-> JsNull, connectionType |-> connectionType]

\* A catch block that hands on every error but the abort.
measureSpeedCatchRethrows(error, nav, connectionType) ==
    IF error = "AbortError" THEN Resolved(Absent("offline")) ELSE Rejected(Error(error))

\* The catch block of measureSpeed: what the promise settles with.
measureSpeedCatch(error, nav, connectionType) ==
    IF error = "AbortError" THEN Resolved(Absent("offline"))
    ELSE IF ~nav.onLine THEN Resolved(Absent("offline"))
    ELSE Resolved(Absent(connectionType))

ProbeInit ==
    /\ Constructed
    /\ onDataPointRecorded = FALSE
    /\ PointIdle
    /\ JourneyIdle
    /\ ClientIdle
    /\ navigator \in Navigators
    /\ probe = NoProbe

probeFrame == <<app, pointVars, journeyVars, clientVars>>

\* The device goes offline or online, or changes its connection.
NetworkChanges(nav) ==
    /\ nav # navigator
    /\ navigator' = nav
    /\ UNCHANGED <<probeFrame, probe>>

\* measureSpeed() up to `await fetch(...)`; offline it returns at once.
MeasureSpeed ==
    /\ probe.pc = "idle"
    /\ probe' = IF getConnectionType(navigator) = "offline"
                  THEN [pc |-> "settled", connectionType |-> "offline", cause |-> "offline",
                        reply |-> Resolved(Absent("offline"))]
                  ELSE [probe EXCEPT !.pc = "fetching",
                                     !.connectionType = getConnectionType(navigator)]
    /\ UNCHANGED <<probeFrame, navigator>>

\* fetch settles: a response that is ok, a response that is not (the HTTP
\* error is thrown), or a network error.
FetchDone(outcome) ==
    /\ probe.pc = "fetching"
    /\ probe' = IF outcome = "ok"
                  THEN [probe EXCEPT !.pc = "reading"]
                  ELSE [probe EXCEPT
                          !.pc = "settled", !.cause = outcome,
                          !.reply = measureSpeedCatch(outcome, navigator, probe.connectionType)]
    /\ UNCHANGED <<probeFrame, navigator>>

\* response.blob() settles: the body has been read, or reading it failed.
BlobDone(ok, size, ms) ==
    /\ probe.pc = "reading"
    /\ probe' = IF ok
                  THEN [probe EXCEPT
                          !.pc = "settled", !.cause = "success",
                          !.reply = Resolved([speedMbps |-> Rate(size, ms),
                                              connectionType |-> probe.connectionType])]
                  ELSE [probe EXCEPT
                          !.pc = "settled", !.cause = "TypeError",
                          !.reply = measureSpeedCatch("TypeError", navigator,
                                                      probe.connectionType)]
    /\ UNCHANGED <<probeFrame, navigator>>

\* The timer fires while fetch or blob() is pending: controller.abort()
\* rejects it with an AbortError.
Timeout ==
    /\ probe.pc \in {"fetching", "reading"}
    /\ probe' = [probe EXCEPT
                   !.pc = "settled", !.cause = "AbortError",
                   !.reply = measureSpeedCatch("AbortError", navigator, probe.connectionType)]
    /\ UNCHANGED <<probeFrame, navigator>>

ProbeNext ==
    \/ \E nav \in Navigators : NetworkChanges(nav)
    \/ MeasureSpeed
    \/ \E outcome \in {"ok", "HTTP error", "TypeError"} : FetchDone(outcome)
    \/ \E ok \in BOOLEAN, size \in BlobSizes, ms \in Durations : BlobDone(ok, size, ms)
    \/ Timeout

ProbeSpec == ProbeInit /\ [][ProbeNext]_vars

\* ---- properties ----------------------------------------------------------

\* The samples the store holds for the journey id (none without a record).
StoredDataPoints(id) == IF id \in DOMAIN store THEN store[id].dataPoints ELSE << >>

IsPrefix(a, b) == Len(a) <= Len(b) /\ \A i \in 1..Len(a) : a[i] = b[i]

\* C1: a startRecording() call made while the controller is not Idle is
\* rejected: no step of that call creates a journey, opens a position watch or
\* schedules an interval, and none changes currentJourney, watchId or
\* intervalId.
C1_StartRejectedWhenNotIdle ==
    [][\A s \in StartIds :
         (starts'[s].pc # starts[s].pc /\ ~starts'[s].fromIdle)
           => UNCHANGED <<currentJourney, watchId, intervalId, journeys, watches, timers>>]_vars

\* C2: whenever the controller is Idle, no interval is scheduled and no
\* position watch is open.
C2_IdleHoldsNoResources ==
    Idle => (timers = {} /\ watches = {})

\* C3: no sample is appended to a journey whose end time has been set.
C3_NoAppendAfterEnd ==
    [][\A j \in DOMAIN journeys :
         journeys[j].endTime # Null => journeys'[j].dataPoints = journeys[j].dataPoints]_vars

\* C4: during a recording session the store holds all samples of the current
\* journey except at most the most recently appended one.
C4_IncrementalDurability ==
    (isRecording /\ currentJourney # Null) =>
        LET mem == journeys[currentJourney].dataPoints
            sto == StoredDataPoints(currentJourney)
        IN  /\ IsPrefix(sto, mem)
            /\ Len(mem) <= Len(sto) + 1

\* C5: no step of a sample cycle - a failing one-shot position request, an
\* absent throughput, a failing save or any other step - ends the session: the
\* recording flag, the current journey and the position watch are unchanged,
\* no interval is cancelled or forgotten, and a cycle that fails while the
\* controller is recording leaves it in a state in which recordDataPoint()
\* passes its guard.
C5_CycleFailureKeepsSession ==
    [][\A c \in CycleIds :
         (cycles[c].pc # "new" /\ cycles'[c].pc # cycles[c].pc)
           => /\ isRecording' = isRecording
              /\ currentJourney' = currentJourney
              /\ watchId' = watchId /\ watches' = watches
              /\ timers \subseteq timers'
              /\ (intervalId # Null => intervalId' # Null)
              /\ (cycles'[c].pc = "failed" /\ ~recordGuard => ~recordGuard')]_vars

C5_Witness ==
    \E c \in CycleIds :
        /\ cycles[c].pc = "failed"
        /\ isRecording /\ currentJourney # Null
        /\ intervalId \in timers /\ watchId \in watches

\* C6: every stopRecording() call that passes its guard and is confirmed
\* eventually leaves the controller not recording and without a journey
\* reference, whether the final save succeeds or fails.
C6_StopReachesIdle ==
    \A s \in StopIds :
        (stops[s].pc \in {"release", "save"}) ~> (~isRecording /\ currentJourney = Null)

C6_Witness ==
    \E s \in StopIds :
        /\ stops[s].pc = "done"
        /\ errorMessage = "Failed to save journey"
        /\ ~isRecording /\ currentJourney = Null

\* C7: a stopRecording() call made while the controller is Idle changes
\* nothing: no journey is ended, no save is issued, and the flag, the journey
\* reference, the interval, the watch and the latest position are unchanged.
C7_StopWhileIdleIsNoOp ==
    [][\A s \in StopIds :
         (Idle /\ stops[s].pc = "new" /\ stops'[s].pc # "new")
           => UNCHANGED <<isRecording, currentJourney, intervalId, watchId,
                          latestPosition, timers, watches, journeys, storage>>]_vars

C7_Witness ==
    /\ \E s \in StopIds : stops[s].pc = "returned"
    /\ \A s \in StartIds : starts[s].pc = "new"
    /\ Idle

\* C8: when the permission check of startRecording() fails, the controller is
\* not recording afterwards and the call has created no journey, issued no
\* save, scheduled no interval and opened no watch; a denial shows the
\* 'location permission is required' message, any other failure shows the
\* error.
C8_FailedPermissionCheck ==
    [][\A s \in StartIds, o \in PositionOutcomes \ {"ok"}, a \in BOOLEAN :
         StartPermissionDone(s, o, a)
           => /\ ~isRecording'
              /\ UNCHANGED <<currentJourney, intervalId, watchId, journeys,
                             timers, watches, storage>>
              /\ starts'[s].pc = "done"
              /\ errorMessage' = IF o = "denied"
                                   THEN "Location permission is required"
                                   ELSE "Location error"]_vars

\* C9: the end time of a journey, once set, never changes: Journey.end() is
\* invoked at most once per session.
C9_EndTimeSetOnce ==
    [][\A j \in DOMAIN journeys :
         journeys[j].endTime # Null => journeys'[j].endTime = journeys[j].endTime]_vars

\* C10: the listener is called at most once per cycle, only by a cycle whose
\* append and save succeeded, and with a journey that is not absent and
\* contains the data point of that cycle.
C10_ListenerGetsCurrentJourney ==
    \A c \in CycleIds :
        cycles[c].notifyCount > 0 =>
            /\ cycles[c].notifyCount = 1
            /\ cycles[c].pc = "ok"
            /\ cycles[c].notifyJourney # Null
            /\ \E i \in DOMAIN journeys[cycles[c].notifyJourney].dataPoints :
                   journeys[cycles[c].notifyJourney].dataPoints[i].cycle = c

\* The field bounds of a DataPoint, as the documentation states them.
WithinBounds(d) ==
    /\ Greater(d.timestamp, 0)
    /\ GreaterEq(d.latitude, -90) /\ LessEq(d.latitude, 90)
    /\ GreaterEq(d.longitude, -180) /\ LessEq(d.longitude, 180)
    /\ GreaterEq(d.accuracy, 0)
    /\ (d.speedMbps = JsNull \/ GreaterEq(d.speedMbps, 0))
    /\ d.connectionType \in validConnectionTypes

\* C11: for every sample whose throughput is absent or a number, the quality
\* class is good iff speedMbps >= 5, moderate iff 1 <= speedMbps < 5, poor iff
\* 0 <= speedMbps < 1 and offline iff speedMbps is null.
C11_QualityFloors ==
    (quality # "none" /\ point.value.speedMbps # NaN) =>
        LET speed == point.value.speedMbps IN
          /\ quality = "good" <=> GreaterEq(speed, speedThresholds.good)
          /\ quality = "moderate" <=>
                (GreaterEq(speed, speedThresholds.moderate) /\ Less(speed, speedThresholds.good))
          /\ quality = "poor" <=>
                (GreaterEq(speed, 0) /\ Less(speed, speedThresholds.moderate))
          /\ quality = "offline" <=> speed = JsNull

\* The order of the quality classes of a measured throughput.
Rank(q) == IF q = "good" THEN 2 ELSE IF q = "moderate" THEN 1 ELSE 0

\* C12: the quality class is one of the four classes and depends on the
\* throughput only; it is offline exactly for an absent throughput, poor for
\* throughput 0, the higher class for a throughput equal to a floor, and never
\* worse for a larger throughput.
C12_QualityOfThroughput ==
    quality # "none" =>
        LET speed == point.value.speedMbps IN
          /\ quality \in {"good", "moderate", "poor", "offline"}
          /\ quality = getQuality([speedMbps |-> speed])
          /\ quality = "offline" <=> speed = JsNull
          /\ speed = Number(0) => quality = "poor"
          /\ speed = Number(speedThresholds.moderate) => quality = "moderate"
          /\ speed = Number(2) => quality = "good"
          /\ speed = Number(speedThresholds.good) => quality = "good"
          /\ \A n \in 0..MaxSpeed :
                GreaterEq(speed, n) => Rank(quality) >= Rank(getQuality([speedMbps |-> Number(n)]))

C12_Witness ==
    /\ quality = "poor"
    /\ point.value.speedMbps = Number(0)
    /\ point.value.connectionType = "offline"

\* The first field, in the order of the checks, that is out of its bounds.
FirstOffending(d) ==
    IF ~Greater(d.timestamp, 0) THEN "timestamp"
    ELSE IF ~(GreaterEq(d.latitude, -90) /\ LessEq(d.latitude, 90)) THEN "latitude"
    ELSE IF ~(GreaterEq(d.longitude, -180) /\ LessEq(d.longitude, 180)) THEN "longitude"
    ELSE IF ~GreaterEq(d.accuracy, 0) THEN "accuracy"
    ELSE IF ~(d.speedMbps = JsNull \/ GreaterEq(d.speedMbps, 0)) THEN "speedMbps"
    ELSE IF d.connectionType \notin validConnectionTypes THEN "connectionType"
    ELSE "none"

\* C13: the constructor succeeds exactly when every field is within its
\* bounds; otherwise it throws the error of the first offending field and
\* produces no DataPoint.
C13_ConstructorValidates ==
    point # NoPoint =>
        /\ point.error = "none" <=> WithinBounds(data)
        /\ point.error = FirstOffending(data)
        /\ point.error # "none" => "value" \notin DOMAIN point

\* C14: for a DataPoint within the bounds, fromJSON(toJSON()) succeeds and
\* yields the same six fields; an absent throughput stays absent and a
\* throughput of 0 stays 0.
C14_DataPointRoundTrip ==
    (restored # NoPoint /\ WithinBounds(point.value)) =>
        /\ restored.error = "none"
        /\ restored.value = point.value
        /\ DOMAIN restored.value =
              {"timestamp", "latitude", "longitude", "accuracy", "speedMbps",
               "connectionType"}
        /\ point.value.speedMbps = JsNull <=> restored.value.speedMbps = JsNull
        /\ point.value.speedMbps = Number(0) <=> restored.value.speedMbps = Number(0)

C14_Witness ==
    /\ restored.error = "none"
    /\ point.error = "none"
    /\ WithinBounds(point.value)
    /\ point.value.speedMbps = JsNull
    /\ restored.value.speedMbps = JsNull

\* C15: every Journey, after construction and any addDataPoint and end calls,
\* has startTime > 0 and an endTime that is absent or positive and not before
\* startTime.
C15_JourneyTimes ==
    journey.error = "none" =>
        /\ journey.value.startTime > 0
        /\ \/ journey.value.endTime = Null
           \/ journey.value.endTime > 0 /\ journey.value.endTime >= journey.value.startTime

\* C16: for every Journey built by the constructor or Journey.create and any
\* addDataPoint and end calls, fromJSON(toJSON()) succeeds and yields the same
\* id, name, startTime, endTime and data points.
C16_JourneyRoundTrip ==
    revived # NoJourney =>
        /\ revived.error = "none"
        /\ revived.value.id = journey.value.id
        /\ revived.value.name = journey.value.name
        /\ revived.value.startTime = journey.value.startTime
        /\ revived.value.endTime = journey.value.endTime
        /\ revived.value.dataPoints = journey.value.dataPoints

\* The sum of the throughputs of the data points with the given indices.
RECURSIVE SumOver(_, _)
SumOver(dataPoints, indices) ==
    IF indices = {} THEN 0
    ELSE LET i == CHOOSE k \in indices : TRUE
         IN  dataPoints[i].speedMbps.val + SumOver(dataPoints, indices \ {i})

\* C17: getStats() returns the number of data points as pointCount; the mean,
\* maximum and minimum over exactly the data points with a present throughput,
\* all three null when there is none; and quality counts in which every data
\* point, also one without throughput, is counted under its quality class.
C17_Stats ==
    stats # NoStats =>
        LET dps == journey.value.dataPoints
            present == {i \in DOMAIN dps : dps[i].speedMbps # JsNull}
        IN  /\ stats.pointCount = Len(dps)
            /\ IF present = {}
                 THEN stats.avgSpeed = JsNull /\ stats.maxSpeed = JsNull
                      /\ stats.minSpeed = JsNull
                 ELSE /\ stats.avgSpeed = [sum |-> SumOver(dps, present),
                                           count |-> Cardinality(present)]
                      /\ \E i \in present : stats.maxSpeed = dps[i].speedMbps
                      /\ \A i \in present : stats.maxSpeed.val >= dps[i].speedMbps.val
                      /\ \E i \in present : stats.minSpeed = dps[i].speedMbps
                      /\ \A i \in present : stats.minSpeed.val <= dps[i].speedMbps.val
            /\ \A q \in {"good", "moderate", "poor", "offline"} :
                  stats.qualityCounts[q] =
                      Cardinality({i \in DOMAIN dps : getQuality(dps[i]) = q})
            /\ stats.qualityCounts["offline"] = Len(dps) - Cardinality(present)
            /\ stats.qualityCounts["good"] + stats.qualityCounts["moderate"]
                  + stats.qualityCounts["poor"] + stats.qualityCounts["offline"] = Len(dps)

C17_Witness ==
    /\ stats # NoStats
    /\ stats.pointCount = 3
    /\ stats.qualityCounts["offline"] = 1
    /\ stats.avgSpeed = [sum |-> MaxSpeed + 1, count |-> 2]
    /\ stats.maxSpeed = Number(MaxSpeed)
    /\ stats.minSpeed = Number(1)

\* The call whose request on the object store is the oldest one.
Served == clients[Head(requests)]

\* The reply getJourney(id) gets from the store st.
Lookup(st, id) ==
    Succeeded([op |-> "get", arg |-> id, reply |-> NoReply, pc |-> "pending"], st).reply

Invalid(record) == JourneyFromJSON(record).error # "none"

\* C21: a read of a stored record that fails validation completes by
\* rejecting.  When the request of a getJourney for an invalid record, or of a
\* getAllJourneys over a store that holds one, has been served, the promise
\* of the call is rejected: it is neither resolved nor left pending.
C21_InvalidRecordRejected ==
    [][\A ok \in BOOLEAN :
         /\ RequestDone(ok)
         /\ \/ Served.op = "get" /\ Served.arg \in DOMAIN store /\ Invalid(store[Served.arg])
            \/ Served.op = "getAll" /\ \E id \in DOMAIN store : Invalid(store[id])
         => clients'[Head(requests)].reply.status = "rejected"]_vars

\* The call k has a request waiting on the object store.
Requested(q, k) == \E i \in DOMAIN q : q[i] = k

\* What is wrong with a file: its text is not JSON, it has no journey, or the
\* field of its journey or of a data point that fails validation; "none" for
\* a file with a valid journey.
Fault(file) ==
    IF ~file.json THEN "SyntaxError"
    ELSE IF file.data.journey \in {Undefined, JsNull} THEN "Invalid journey file format"
    ELSE JourneyFromJSON(file.data.journey).error

\* C22: a failed import is fatal to the import only.  When the file read by
\* importJourney is not JSON, has no journey, or has a journey that fails the
\* validation of the journey or of a data point, the promise is rejected with
\* 'Failed to import journey: ' and the message of the failure, no request is
\* placed on the store for the call, and the store is the one held before;
\* the store changes only when the put of an import of a valid journey is
\* carried out.
C22_FailedImport ==
    [][/\ \A k \in DOMAIN clients :
            clients[k].op = "import" /\ Fault(clients[k].arg) # "none"
              => /\ ~Requested(requests', k)
                 /\ clients'[k].pc \in {"reading", "settled"}
                 /\ FileRead(k, TRUE)
                      => /\ clients'[k].pc = "settled"
                         /\ clients'[k].reply =
                               Rejected(ImportError(Fault(clients[k].arg)))
                         /\ store' = store
       /\ store' # store
            => /\ RequestDone(TRUE)
               /\ Served.op = "import"
               /\ Fault(Served.arg) = "none"]_vars

\* C22: over a database that holds a journey, an import of a file without
\* a journey and an import of a journey that ends before it starts have been
\* rejected.
C22_Witness ==
    /\ store # << >>
    /\ \A cause \in {"Invalid journey file format", "endTime"} :
          \E k \in DOMAIN clients :
              /\ clients[k].op = "import"
              /\ clients[k].reply = Rejected(ImportError(cause))

C24_TransferShape ==
    [][\A k \in DOMAIN clients :
         /\ clients[k].op = "import"
         /\ clients[k].arg.json
         /\ \/ clients[k].arg.data.version # "1.0"
            \/ clients[k].arg.data.exportedAt = "undefined"
         => /\ clients'[k].pc \in {"reading", "settled"}
            /\ ~Requested(requests', k)
            /\ clients'[k].reply.status # "resolved"]_vars

\* C25: the throughput probe never fails into the sample cycle.  The promise
\* of measureSpeed is never rejected; however the transfer ends (read to the
\* end, HTTP error, network error, abort by the timer, device offline) it
\* resolves with a connection type of the four classes and a throughput that
\* is a measured rate after a transfer read to the end and null otherwise;
\* an abort by the timer gives null.
C25_ProbeNeverRejects ==
    /\ probe.reply.status # "rejected"
    /\ probe.pc = "settled"
         => /\ probe.reply.status = "resolved"
            /\ probe.cause \in {"success", "HTTP error", "TypeError", "AbortError", "offline"}
            /\ probe.reply.value.connectionType \in validConnectionTypes
            /\ probe.cause = "success"
                 => /\ typeofNumber(probe.reply.value.speedMbps)
                    /\ probe.reply.value.speedMbps # NaN
            /\ probe.cause # "success" => probe.reply.value.speedMbps = JsNull

\* C25: on a device that is online a transfer has ended with an HTTP error,
\* or has been aborted by the timer, and measureSpeed has resolved with null.
C25_Witness ==
    /\ navigator.onLine
    /\ probe.pc = "settled"
    /\ probe.cause \in {"HTTP error", "AbortError"}
    /\ probe.reply.status = "resolved"
    /\ probe.reply.value.speedMbps = JsNull

\* C26: at most one sample cycle is in progress at any time.  A tick of the
\* interval does not start a recordDataPoint() while an earlier call is
\* waiting for its position, its throughput or its save, and no two calls
\* are ever in progress together.
C26_OneCycleAtATime ==
    [][/\ \A t \in timers : Tick(t) => \A c \in CycleIds : ~CycleInProgress(c)
       /\ \A c, d \in CycleIds : CycleInProgress(c)' /\ CycleInProgress(d)' => c = d]_vars

\* The controller has a save of the journey under way: an open or a put
\* requested for it.
SavePending(id) ==
    \/ \E i \in DOMAIN opening : opening[i].journey = id
    \/ \E i \in DOMAIN putQueue : putQueue[i].journey = id

\* C27: once Stop has completed the store is the source of truth.  While the
\* controller is Idle and the store holds the record of an ended journey, no
\* save of that journey is under way and the record is left as it is.
C27_StoreIsSourceOfTruth ==
    [][\A id \in DOMAIN store :
         Idle /\ store[id].endTime # Null
           => /\ ~SavePending(id)
              /\ id \in DOMAIN store'
              /\ store'[id] = store[id]]_vars

\* C28: Stop cancels before it suspends.  In the step in which a
\* stopRecording() call passes its guard and is confirmed, the interval and
\* the watch the controller holds are cancelled, both handles are reset and
\* the latest position is cleared; Journey.end() and the final save of the
\* call are performed in that step after the cancelling, or in a later step
\* of the call, never before.
C28_StopCancelsFirst ==
    [][\A s \in StopIds :
         /\ stops[s].pc = "new" /\ stops'[s].pc \in {"release", "save"}
              => /\ intervalId # Null => intervalId \notin timers'
                 /\ watchId # Null => watchId \notin watches'
                 /\ intervalId' = Null
                 /\ watchId' = Null
                 /\ latestPosition' = NoPosition
         /\ stops[s].pc = "new" /\ stops'[s].pc = "release"
              => UNCHANGED <<journeys, storage>>
         /\ stops'[s].pc = "save" /\ stops[s].pc # "save"
              => stops[s].pc \in {"new", "release"}]_vars

\* C28: a stopRecording() call is waiting for the wake lock to be released:
\* the interval and the watch of the session are cancelled, the latest
\* position is cleared, and the journey has not been ended yet.
C28_Witness ==
    \E s \in StopIds, r \in StartIds :
        /\ stops[s].pc = "release"
        /\ starts[r].pc = "done"
        /\ isRecording /\ currentJourney = r
        /\ journeys[r].endTime = Null
        /\ timers = {} /\ watches = {}
        /\ intervalId = Null /\ watchId = Null /\ latestPosition = NoPosition

\* TRUE iff the timestamps of the data points are non-decreasing along the
\* sequence.
InRecordingOrder(dataPoints) ==
    \A i, j \in 1..Len(dataPoints) :
        i < j => dataPoints[i].timestamp <= dataPoints[j].timestamp

\* C29: samples are stored in recording order.  In every journey of the
\* controller and in every record it has stored, the timestamps of the data
\* points are non-decreasing along the sequence, also when sample cycles
\* overlap and complete in another order than they started.
C29_RecordingOrder ==
    /\ \A id \in DOMAIN journeys : InRecordingOrder(journeys[id].dataPoints)
    /\ \A id \in DOMAIN store : InRecordingOrder(store[id].dataPoints)

\* C29: a stored record holds two samples of cycles that overlapped, the one
\* started later first.
C29_Witness ==
    \E id \in DOMAIN store :
        /\ Len(store[id].dataPoints) = 2
        /\ Len(journeys[id].dataPoints) = 2
        /\ journeys[id].dataPoints[1].cycle > journeys[id].dataPoints[2].cycle

\* C30: a Put that reports success has been committed.  When saveJourney(j)
\* resolves the store holds j's record; a record of the store is replaced
\* only by carrying out a Put of its id and is never taken out (no Delete
\* and no ClearAll is called); and a getJourney(id) that resolves while a
\* record is stored under id resolves to the journey of that whole record.
C30_SuccessIsCommitted ==
    [][/\ \A k \in DOMAIN clients :
            /\ clients[k].op = "save"
            /\ clients[k].reply = NoReply
            /\ clients'[k].reply = Resolved(Undefined)
            => /\ clients[k].arg.id \in DOMAIN store'
               /\ store'[clients[k].arg.id] = JourneyToJSON(clients[k].arg)
       /\ \A id \in DOMAIN store :
            /\ id \in DOMAIN store'
            /\ store'[id] # store[id]
                 => /\ requests # << >>
                    /\ Served.op = "save" /\ Served.arg.id = id
                    /\ clients'[Head(requests)].reply = Resolved(Undefined)
                    /\ store'[id] = JourneyToJSON(Served.arg)
       /\ \A k \in DOMAIN clients :
            /\ clients[k].op = "get"
            /\ clients[k].reply = NoReply
            /\ clients'[k].reply.status = "resolved"
            /\ clients[k].arg \in DOMAIN store
            => JourneyToJSON(clients'[k].reply.value) = store[clients[k].arg]]_vars

\* C31: one connection between two close() calls.  Any two open() calls made
\* since the last close() that have resolved hold the same connection, and
\* an indexedDB.open request succeeds only when this.db holds no connection.
C31_OneConnection ==
    /\ \A k, m \in DOMAIN clients :
          /\ clients[k].op = "open" /\ clients[m].op = "open"
          /\ clients[k].arg = "" /\ clients[m].arg = ""
          /\ clients[k].reply.status = "resolved"
          /\ clients[m].reply.status = "resolved"
          => clients[k].reply.value = clients[m].reply.value
    /\ \A k \in DOMAIN clients :
          /\ clients[k].op = "open" /\ clients[k].arg = ""
          /\ clients[k].reply.status = "resolved"
          => db = clients[k].reply.value

\* C32: the latest-position slot.  The slot is empty or holds one fix; it
\* changes only when the watch delivers a fix, which replaces what it holds,
\* and when Stop empties it; and a cycle that begins takes the fix of the
\* slot and goes on to the measurement without a position request if the slot
\* holds one, and asks for the current position if and only if the slot is
\* empty, leaving the slot as it is.
C32_LatestPositionSlot ==
    [][/\ latestPosition' \in Fixes \cup {NoPosition}
       /\ \A w \in SessionIds, position \in Fixes :
            WatchFix(w, position) => latestPosition' = position
       /\ latestPosition' # latestPosition
            => \/ \E w \in SessionIds, position \in Fixes : WatchFix(w, position)
               \/ /\ latestPosition' = NoPosition
                  /\ \E s \in StopIds :
                       stops[s].pc = "new" /\ stops'[s].pc \in {"release", "save"}
       /\ \A s \in StopIds :
            stops[s].pc = "new" /\ stops'[s].pc \in {"release", "save"}
              => latestPosition' = NoPosition
       /\ \A c \in CycleIds :
            cycles[c].pc = "new" /\ cycles'[c].pc # "new"
              => /\ latestPosition' = latestPosition
                 /\ latestPosition # NoPosition
                      => cycles'[c].pc = "speed" /\ cycles'[c].position = latestPosition
                 /\ latestPosition = NoPosition <=> cycles'[c].pc = "position"]_vars

\* C32: the watch has delivered the second fix over the first: a cycle that
\* began with the first fix in the slot and a cycle that began with the
\* second are measuring, neither has asked for a position, and the slot holds
\* the second fix.
C32_Witness ==
    \E c, d \in CycleIds :
        /\ c < d
        /\ cycles[c].pc = "speed" /\ cycles[c].position = Moved
        /\ cycles[d].pc = "speed" /\ cycles[d].position = Fix
        /\ latestPosition = Fix

\* C33: export followed by import is the identity.  The file of every
\* exportJourney(j) has exactly the fields version = "1.0", exportedAt and
\* journey; an import of that file is not rejected for what the file holds,
\* and when it resolves it resolves with a journey equal to j in id, name,
\* startTime, endTime and samples.
C33_ExportImportIdentity ==
    \A e \in DOMAIN clients :
        clients[e].op = "export"
          => /\ JSONParse(clients[e].reply.value).error = "none"
             /\ DOMAIN JSONParse(clients[e].reply.value).value
                   = {"version", "exportedAt", "journey"}
             /\ JSONParse(clients[e].reply.value).value.version = "1.0"
             /\ \A i \in DOMAIN clients :
                   clients[i].op = "import" /\ clients[i].arg = clients[e].reply.value
                     => /\ clients[i].reply.status = "rejected"
                            => clients[i].reply.message
                                 \in {Error("Failed to read file"),
                                      ImportError("Failed to open database"),
                                      ImportError("Failed to save journey")}
                        /\ clients[i].reply.status = "resolved"
                            => clients[i].reply.value = clients[e].arg

\* C34: a cycle appends to the journey of its own session.  Whenever a sample
\* is appended to a journey, the cycle that produced it passed its guard while
\* that journey was the current one; its position was read from the slot or
\* requested after that.
C34_CycleStaysInItsSession ==
    [][\A j \in DOMAIN journeys :
         Len(journeys'[j].dataPoints) > Len(journeys[j].dataPoints)
           => LET dp == journeys'[j].dataPoints[Len(journeys'[j].dataPoints)]
              IN  cycles[dp.cycle].session = j]_vars

\* C35: a deleted journey stays deleted.  Once deleteJourney(id) of the map
\* view has completed, the store holds no record under id, whatever the
\* recording controller does afterwards.
C35_DeletedStaysDeleted ==
    \A k \in DOMAIN clients :
        clients[k].op = "delete" /\ clients[k].reply.status = "resolved"
          => clients[k].arg \notin DOMAIN store

\* C36: the recording flag and the journey reference agree.  isRecording is
\* true if and only if currentJourney is set, and while it is true the current
\* journey has no end time unless a stopRecording() call is in progress.
C36_FlagAndJourneyAgree ==
    /\ isRecording <=> currentJourney # Null
    /\ isRecording /\ currentJourney # Null
         => \/ journeys[currentJourney].endTime = Null
            \/ \E s \in StopIds : StopInProgress(s)

\* C37: the stored record only grows.  In every step the samples of each
\* stored record are a prefix of the samples of the journey in memory, and the
\* samples a record held before the step are a prefix of the samples it holds
\* after it: no put, of a cycle or of Stop, takes a stored sample away.
C37_StoredRecordGrows ==
    [][\A id \in DOMAIN store' :
         /\ IsPrefix(store'[id].dataPoints, journeys'[id].dataPoints)
         /\ id \in DOMAIN store
              => IsPrefix(store[id].dataPoints, store'[id].dataPoints)]_vars

\* C37: the record of the current journey holds a sample, and the puts of a
\* later cycle and of Stop are both waiting to be served, the one of the
\* cycle with more samples than the record.
C37_Witness ==
    /\ currentJourney # Null
    /\ currentJourney \in DOMAIN store
    /\ Len(store[currentJourney].dataPoints) = 1
    /\ Len(putQueue) = 2
    /\ putQueue[1].journey = currentJourney /\ putQueue[1].caller.kind = "cycle"
    /\ putQueue[2].journey = currentJourney /\ putQueue[2].caller.kind = "stop"
    /\ Len(putQueue[1].value.dataPoints) = 2

C39_ProbeResultWellFormed ==
    probe.reply.status = "resolved"
      => LET r == probe.reply.value
         IN  /\ r.connectionType \in validConnectionTypes
             /\ \/ r.speedMbps = JsNull
                \/ typeofNumber(r.speedMbps) /\ GreaterEq(r.speedMbps, 0)
             /\ r.connectionType = "offline" => r.speedMbps = JsNull
             /\ DataPointValidate([SampleInput(r.speedMbps) EXCEPT
                                     !.connectionType = r.connectionType]) = "none"

\* C39: a transfer has been read to the end on a device that has gone
\* offline in the meantime; the result has a measured throughput and the
\* connection type that was detected before the transfer.
C39_Witness ==
    /\ ~navigator.onLine
    /\ probe.pc = "settled"
    /\ probe.cause = "success"
    /\ probe.reply.status = "resolved"
    /\ probe.reply.value.speedMbps # JsNull
    /\ probe.reply.value.connectionType = "cellular"

====
